---- MODULE Spec2Model ----
(***************************************************************************)
(* Job Manager of the video engine (video-engine/src/utils/ffmpeg.js,      *)
(* class JobManager).  The model follows the asynchronous structure of the *)
(* code: every `await` on real I/O (fs.writeFile in persistJob, the engine *)
(* run, the webhook fetch, the backoff timer) is a point where other       *)
(* handlers may run; the code between two such points runs atomically on   *)
(* the single-threaded event loop and is one action here.                  *)
(***************************************************************************)
EXTENDS Integers, Sequences, FiniteSets, TLC

\* ---------------------------------------------------------------- bounds
MaxJobs == 2        \* number of createJob calls explored
MaxCancels == 1     \* number of cancelJob calls explored
MaxRestarts == 1    \* number of process restarts explored
MaxTick == 1        \* largest created_at timestamp (clock ticks)
MaxSweeps == 1      \* number of cleanupOldJobs runs explored

\* ------------------------------------------------------ program constants
MAX_WEBHOOK_RETRIES == 3
WEBHOOK_BACKOFF_MS == 2000
compositionConcurrency == 1
assemblyConcurrency == 2

Ids == 1..MaxJobs

VARIABLES
    jobs,        \* this.jobs: id -> job record held in memory (NoJob if absent)
    order,       \* insertion order of the Map this.jobs
    disk,        \* data/jobs/<id>.json: id -> persisted record (NoJob if none)
    activeJobs,  \* this.activeJobs
    writes,      \* fs.writeFile calls in flight, each with its continuation
    running,     \* jobs whose engine.run() has started and not yet returned
    hooks,       \* id -> state of the sendWebhookWithRetry call of the job
    now,         \* last value handed out by new Date()
    nextId,      \* next fresh job id (uuidv4 never repeats)
    nCancels,    \* cancelJob calls made so far
    epoch,       \* process lifetime number (restarts so far)
    persisted,   \* history: status writes completed in this lifetime
    effects,     \* history: side effects (webhook, cleanup) triggered
    lost,        \* history: status writes that failed in this lifetime
    recovered,   \* history: jobs init() has ever marked failed
    cancelled,   \* history: cancelJob calls this lifetime knows of
    invoked,     \* history: id -> number of executeJob calls ever made
    workdir,     \* temp/<id>: ids whose working directory exists
    streams,     \* id -> state of the SSE subscriber of the job
    sweep,       \* state of the running cleanupOldJobs call
    req,         \* last POST /jobs request and its response
    render,      \* what the composition engine's filter stage computed
    tts,         \* state of the narration fallback loop of one job
    ffmpeg,      \* state of one runFFmpeg call: child process, timer, promise
    template,    \* the engine's effective template and what it was made from
    rateLimiter, \* the bot's RateLimiter: windows, clock, calls accepted
    download,    \* state of one downloadFile call: attempt, requests, waits
    delivery,    \* the bot's deliveredJobs and its deliverJobResult calls
    queueLimit   \* config.queue.compositionConcurrency

vars == <<jobs, order, disk, activeJobs, writes, running, hooks, now, nextId,
          nCancels, epoch, persisted, effects, lost, recovered,
          cancelled, invoked, workdir, streams, sweep, req,
          render, tts, ffmpeg, template, rateLimiter,
          download, delivery, queueLimit>>

\* ------------------------------------------------------------ job records
\* `mode` is payload.mode, `clip` says how the payload's clip descriptor names
\* its source: "url" (it has a url), "query" (a stock query and no url) or
\* "query+stock" (a query and the url the engine's stock search put there)
NoJob == [status |-> "absent", created_at |-> 0, error |-> "none",
          result |-> FALSE, webhook |-> FALSE, mode |-> "none",
          clip |-> "none"]

NewJob(t, wh, mode, clip) ==
    [status |-> "queued", created_at |-> t, error |-> "none",
     result |-> FALSE, webhook |-> wh, mode |-> mode, clip |-> clip]

Terminal == {"done", "failed", "cancelled"}
Active == {"processing", "preparing"}

NoHook == [st |-> "none", attempt |-> 0, waits |-> <<>>, body |-> "none"]

\* no subscriber on GET /jobs/:id/stream
NoStream == [st |-> "none", terminal |-> 0]

\* cleanupOldJobs is not running
NoSweep == [st |-> "idle", n |-> 0, tempSizeMB |-> 0, visited |-> {},
            id |-> 0, status |-> "none", age |-> 0]

\* the supported xfade transition types (part_021 lines 29-37)
XFADE_TYPES ==
    {"fade", "fadeblack", "fadewhite", "fadegrays",
     "slideleft", "slideright", "slideup", "slidedown",
     "wipeleft", "wiperight", "wipeup", "wipedown",
     "smoothleft", "smoothright", "smoothup", "smoothdown",
     "circlecrop", "circleopen", "circleclose",
     "dissolve", "pixelize", "radial", "hblur",
     "wipetl", "wipetr", "wipebl", "wipebr"}

\* ------------------------------------------------------ request payloads
\* A URL string, by what the route reads of it: whether it is there, whether
\* it starts with 'http', whether `new URL(str)` parses it and the protocol
\* the parse gives.
NoUrl == [given |-> FALSE, http |-> FALSE, parses |-> FALSE, protocol |-> ""]
HttpsUrl == [given |-> TRUE, http |-> TRUE, parses |-> TRUE,
             protocol |-> "https:"]
BrokenHttpUrl == [given |-> TRUE, http |-> TRUE, parses |-> FALSE,
                  protocol |-> ""]
FtpUrl == [given |-> TRUE, http |-> FALSE, parses |-> TRUE,
           protocol |-> "ftp:"]
LocalUrl == [given |-> TRUE, http |-> FALSE, parses |-> TRUE,
             protocol |-> "local:"]
PathString == [given |-> TRUE, http |-> FALSE, parses |-> FALSE,
               protocol |-> ""]
Urls == {HttpsUrl, BrokenHttpUrl, FtpUrl, LocalUrl, PathString}

\* clip.speed: its typeof and, for a number, a hundred times its value
NoSpeed == [type |-> "undefined", x100 |-> 0]
Speed(x100) == [type |-> "number", x100 |-> x100]
Speeds == {NoSpeed, Speed(24), Speed(25), Speed(100), Speed(400),
           Speed(401), [type |-> "string", x100 |-> 0]}

\* The request body of POST /jobs.  A clips array is `nclips` descriptors
\* that all look alike (clipUrl, clipQuery, speed, blur_background,
\* transition); a timeline is `nsegs` segments with the same source_url;
\* overlays are `overlays` entries that all have a url or all lack it;
\* voText is voice_over.text.length (0: no text).
NoPayload ==
    [mode |-> "none", comp |-> FALSE, clips |-> "absent", nclips |-> 0,
     clipUrl |-> NoUrl, clipQuery |-> FALSE, speed |-> NoSpeed,
     blur_background |-> "undefined", transition |-> "none",
     input |-> NoUrl, overlays |-> 0, overlayUrl |-> TRUE,
     output_format |-> "none", quality |-> "none", subtitles |-> "none",
     voText |-> 0, timeline |-> "absent", nsegs |-> 0, segUrl |-> NoUrl,
     webhook_url |-> NoUrl]

\* one clip given by url
ClipsPayload ==
    [NoPayload EXCEPT !.mode = "composition", !.comp = TRUE,
                      !.clips = "array", !.nclips = 1, !.clipUrl = HttpsUrl]

\* the single-input form, no clips
InputPayload ==
    [NoPayload EXCEPT !.mode = "composition", !.comp = TRUE,
                      !.input = HttpsUrl]

\* one timeline segment
AssemblyPayload ==
    [NoPayload EXCEPT !.mode = "assembly", !.timeline = "array",
                      !.nsegs = 1, !.segUrl = HttpsUrl]

\* the request bodies explored: each of the three forms above with one of
\* its fields set to each value of interest
Payloads ==
    LET Forms == {ClipsPayload, InputPayload, AssemblyPayload}
    IN  Forms
        \cup {[b EXCEPT !.mode = v] : b \in Forms, v \in {"none", "preview"}}
        \cup {[b EXCEPT !.comp = FALSE] : b \in Forms}
        \cup {[ClipsPayload EXCEPT !.nclips = n] : n \in {0, 20, 21, 25}}
        \cup {[ClipsPayload EXCEPT !.clips = "object"]}
        \cup {[InputPayload EXCEPT !.input = u] : u \in Urls \cup {NoUrl}}
        \cup {[ClipsPayload EXCEPT !.clipUrl = u] : u \in Urls}
        \cup {[ClipsPayload EXCEPT !.clipUrl = NoUrl, !.clipQuery = q] :
                 q \in BOOLEAN}
        \cup {[ClipsPayload EXCEPT !.speed = v] : v \in Speeds}
        \cup {[ClipsPayload EXCEPT !.blur_background = v] :
                 v \in {"boolean", "string"}}
        \cup {[ClipsPayload EXCEPT !.transition = v] :
                 v \in {"string", "fade", "wipebr", "spin"}}
        \cup {[b EXCEPT !.overlays = n, !.overlayUrl = u] :
                 b \in {ClipsPayload, InputPayload}, n \in {1, 5, 6},
                 u \in BOOLEAN}
        \cup {[b EXCEPT !.output_format = v] :
                 b \in {ClipsPayload, InputPayload},
                 v \in {"shorts", "portrait_4_5", "cinema"}}
        \cup {[b EXCEPT !.quality = v] :
                 b \in {ClipsPayload, InputPayload},
                 v \in {"draft", "full", "ultra"}}
        \cup {[b EXCEPT !.subtitles = v] :
                 b \in {ClipsPayload, InputPayload}, v \in {"ok", "bad"}}
        \cup {[b EXCEPT !.voText = n] :
                 b \in {ClipsPayload, InputPayload}, n \in {1, 5000, 5001}}
        \cup {[AssemblyPayload EXCEPT !.timeline = v] :
                 v \in {"absent", "object"}}
        \cup {[AssemblyPayload EXCEPT !.nsegs = n] : n \in {0, 50, 51}}
        \cup {[AssemblyPayload EXCEPT !.segUrl = u] : u \in Urls \cup {NoUrl}}
        \cup {[b EXCEPT !.webhook_url = u] : b \in Forms, u \in Urls}

\* no request has been made
NoReq == [payload |-> NoPayload, code |-> 0]

\* job.status = status; Object.assign(job, extra) for the three shapes of
\* `extra` the code passes: {result}, {error: err.message}, {} (lines 313-314)
\* ------------------------------------------- the engine's components
\* template.fps of the default template (line 684)
DefaultFps == 30

NoTransition == [given |-> FALSE, type |-> "none", duration |-> 0]
\* a transition object; type "none" stands for one without a `type`
Transition(type, d) == [given |-> TRUE, type |-> type, duration |-> d]

\* the fields of the effective template the filter stage reads:
\* template.transitions[0] (NoTransition when transitions is null) and fps
Template(tr, fps) == [transition |-> tr, fps |-> fps]

NoRender ==
    [clips |-> <<>>, vo |-> 0, template |-> Template(NoTransition, DefaultFps),
     clipFiles |-> <<>>, finalDuration |-> 0, filters |-> <<>>,
     processedClips |-> <<>>, totalVideoDuration |-> 0, progressDuration |-> 0,
     voFile |-> FALSE, musicFile |-> FALSE, isDucking |-> FALSE,
     audio |-> [filters |-> <<>>, lastAudioStream |-> "none"],
     subtitles |-> [wordTimings |-> <<>>, wordsPerLine |-> 0, events |-> <<>>],
     t |-> 0]

\* no narration has been asked for yet
NoTts ==
    [st |-> "idle", providers |-> <<>>, keys |-> {}, i |-> 0, tried |-> {},
     calls |-> <<>>, voResult |-> "none", lastErr |-> "none", error |-> "none"]
\* runFFmpeg has not been called
NoProcess ==
    [st |-> "none", timeoutMs |-> 0, timer |-> "none", killed |-> FALSE,
     elapsed |-> 0, code |-> -1, promise |-> "none", error |-> "none"]
\* no template has been loaded
NoTemplate ==
    [st |-> "none", file |-> <<>>, overrides |-> <<>>,
     variables |-> [given |-> FALSE, map |-> <<>>], effective |-> <<>>]
\* new RateLimiter(): no key has a window yet (an absent key reads as [])
NoLimiter ==
    [windows |-> [k \in {"msg", "job"} |-> <<>>], now |-> 0, advances |-> 0,
     calls |-> [k \in {"msg", "job"} |-> 0],
     accepted |-> [k \in {"msg", "job"} |-> <<>>],
     rejected |-> [k \in {"msg", "job"} |-> <<>>]]

\* downloadFile has not been called
NoDownload ==
    [st |-> "none", attempt |-> 0, calls |-> <<>>, waits |-> <<>>,
     stored |-> "none", error |-> "none"]

\* the bot has not started
NoDelivery ==
    [version |-> "none", status |-> [j \in Ids |-> "none"],
     deliveredJobs |-> {},
     pc |-> [c \in {"webhook", "poll"} |-> [j \in Ids |-> "idle"]],
     sent |-> [j \in Ids |-> 0]]

\* (variant) a failure keeps no error message
Assign_noError(job, status, msg) ==
    CASE status = "done" -> [job EXCEPT !.status = status, !.result = TRUE]
      [] OTHER -> [job EXCEPT !.status = status]

\* job.status = status; Object.assign(job, extra): extra is {result} for
\* done and {error: err.message} for failed (lines 313-314, 424, 428)
Assign(job, status, msg) ==
    CASE status = "done" -> [job EXCEPT !.status = status, !.result = TRUE]
      [] status = "failed" -> [job EXCEPT !.status = status, !.error = msg]
      [] OTHER -> [job EXCEPT !.status = status]

\* one fs.writeFile in flight: the record serialised when persistJob was
\* called, the updateJobStatus call that awaits it and its previousStatus
Write(id, kind, prev, snap, n) ==
    [id |-> id, kind |-> kind, prev |-> prev, snap |-> snap, n |-> n]

\* (variant) the write is not awaited, the old content is still there
PersistedRecord_stale(old, snap) == old

\* the file's content once fs.writeFile has resolved: the record serialised
\* at the call (lines 357-360)
PersistedRecord(old, snap) == snap

\* synchronous head of updateJobStatus(id, status, extra): lines 309-320;
\* for an id that is not in the map it returns at once (line 310)
UpdateHead(js, ws, id, status, n, msg) ==
    IF js[id] = NoJob THEN [jobs |-> js, writes |-> ws]
    ELSE LET job == Assign(js[id], status, msg)
         IN  [jobs |-> [js EXCEPT ![id] = job],
              writes |-> ws \cup {Write(id, status, js[id].status, job, n)}]

\* (variant) the dequeued job is marked processing at once
DequeueStatus_skip == "processing"

\* the status processQueue gives the job it dequeues (line 374)
DequeueStatus == "preparing"

\* (variant) the dequeue does not look at the status it finds
NextQueued_cancelled(js, ord) ==
    LET Q == {i \in 1..Len(ord) : js[ord[i]].status \in {"queued", "cancelled"}}
    IN  IF Q = {} THEN 0
        ELSE ord[CHOOSE i \in Q : \A k \in Q :
                    \/ js[ord[i]].created_at < js[ord[k]].created_at
                    \/ /\ js[ord[i]].created_at = js[ord[k]].created_at
                       /\ i <= k]

\* Array.from(jobs.values()).sort(by created_at).find(status === 'queued'):
\* the sort is stable, so equal timestamps keep the Map's insertion order
NextQueued(js, ord) ==
    LET Q == {i \in 1..Len(ord) : js[ord[i]].status = "queued"}
    IN  IF Q = {} THEN 0
        ELSE ord[CHOOSE i \in Q : \A k \in Q :
                    \/ js[ord[i]].created_at < js[ord[k]].created_at
                    \/ /\ js[ord[i]].created_at = js[ord[k]].created_at
                       /\ i <= k]

\* processQueue up to its first await (lines 363-374)
ProcessQueue(js, ord, act, ws) ==
    IF act >= queueLimit
    THEN [jobs |-> js, active |-> act, writes |-> ws]
    ELSE LET n == NextQueued(js, ord)
         IN  IF n = 0
             THEN [jobs |-> js, active |-> act, writes |-> ws]
             ELSE LET u == UpdateHead(js, ws, n, DequeueStatus, 0, "none")
                  IN  [jobs |-> u.jobs, active |-> act + 1, writes |-> u.writes]

\* (variant) the slot is never given back
Release_leak(act, prev) == act

\* Math.max(0, this.activeJobs - 1) when the job was actively running
Release(act, prev) ==
    IF prev \in Active THEN (IF act - 1 > 0 THEN act - 1 ELSE 0) ELSE act

\* ------------------------------------------------------------------ Init
InitWith(n) ==
    /\ jobs = [j \in Ids |-> NoJob]
    /\ order = <<>>
    /\ disk = [j \in Ids |-> NoJob]
    /\ activeJobs = 0
    /\ writes = {}
    /\ running = {}
    /\ hooks = [j \in Ids |-> NoHook]
    /\ now = 0
    /\ nextId = 1
    /\ nCancels = 0
    /\ epoch = 0
    /\ persisted = {}
    /\ effects = {}
    /\ lost = {}
    /\ recovered = {}
    /\ cancelled = {}
    /\ invoked = [j \in Ids |-> 0]
    /\ workdir = {}
    /\ streams = [j \in Ids |-> NoStream]
    /\ sweep = NoSweep
    /\ req = NoReq
    /\ render = NoRender
    /\ tts = NoTts
    /\ ffmpeg = NoProcess
    /\ template = NoTemplate
    /\ rateLimiter = NoLimiter
    /\ download = NoDownload
    /\ delivery = NoDelivery
    /\ queueLimit = n

\* the service with the limit of config/default.js
Init == InitWith(compositionConcurrency)

\* --------------------------------------------------------------- actions
\* createJob(payload) up to `await this.persistJob(job)` (lines 271-282)
CreateWith(t, wh, mode, clip) ==
    /\ nextId <= MaxJobs
    /\ t <= MaxTick
    /\ jobs' = [jobs EXCEPT ![nextId] = NewJob(t, wh, mode, clip)]
    /\ writes' = writes \cup
           {Write(nextId, "create", "absent", NewJob(t, wh, mode, clip), 0)}
    /\ now' = t
    /\ order' = Append(order, nextId)
    /\ nextId' = nextId + 1
    /\ UNCHANGED <<disk, activeJobs, running, hooks, nCancels, epoch,
                   persisted, effects, lost, recovered,
                   cancelled, invoked, workdir, streams, sweep,
                   render, tts, ffmpeg, template, rateLimiter,
                   download, delivery, queueLimit>>

\* a composition job whose clips all carry a url is submitted
CreateJob ==
    /\ \E wh \in BOOLEAN, t \in {now, now + 1} :
          CreateWith(t, wh, "composition", "url")
    /\ UNCHANGED req

\* createJob after the write: this.processQueue() (line 283)
CreatePersisted ==
    \E w \in writes :
       /\ w.kind = "create"
       /\ LET q == ProcessQueue(jobs, order, activeJobs, writes \ {w})
          IN  /\ jobs' = q.jobs
              /\ activeJobs' = q.active
              /\ writes' = q.writes
       /\ disk' = [disk EXCEPT ![w.id] = PersistedRecord(disk[w.id], w.snap)]
       /\ UNCHANGED <<order, running, hooks, now, nextId, nCancels, epoch,
                      persisted, effects,
                   lost, recovered,
                   cancelled, invoked, workdir, streams, sweep, req,
                   render, tts, ffmpeg, template, rateLimiter,
                   download, delivery, queueLimit>>

\* processQueue after `await updateJobStatus(id, 'preparing')` returns, then
\* executeJob up to its first await: updateJobStatus(id, 'processing')
\* (lines 374-382; 'preparing' takes neither branch of lines 322-353).
\* When the job has left the map meanwhile that call returns without an
\* await and executeJob goes straight on to the engine run.
PreparingPersisted ==
    \E w \in writes :
       /\ w.kind = "preparing"
       /\ LET u == UpdateHead(jobs, writes \ {w}, w.id, "processing", 0, "none")
          IN  /\ jobs' = u.jobs
              /\ writes' = u.writes
       /\ disk' = [disk EXCEPT ![w.id] = PersistedRecord(disk[w.id], w.snap)]
       /\ invoked' = [invoked EXCEPT ![w.id] = invoked[w.id] + 1]
       /\ IF jobs[w.id] = NoJob
          THEN /\ running' = running \cup {w.id}
               /\ workdir' = workdir \cup {w.id}
          ELSE UNCHANGED <<running, workdir>>
       /\ UNCHANGED <<order, activeJobs, hooks, now, nextId,
                      nCancels, epoch, persisted, effects,
                   lost, recovered,
                   cancelled, streams, sweep, req,
                   render, tts, ffmpeg, template, rateLimiter,
                   download, delivery, queueLimit>>

\* executeJob after `await updateJobStatus(id, 'processing')`: the engine
\* run starts (lines 385-391) and makes the job's working directory
\* (composition engine part_021 lines 42-43, assembly-engine.js lines 10-11)
ProcessingPersisted ==
    \E w \in writes :
       /\ w.kind = "processing"
       /\ writes' = writes \ {w}
       /\ disk' = [disk EXCEPT ![w.id] = PersistedRecord(disk[w.id], w.snap)]
       /\ running' = running \cup {w.id}
       /\ workdir' = workdir \cup {w.id}
       /\ UNCHANGED <<jobs, order, activeJobs, hooks, now, nextId, nCancels,
                      epoch, persisted, effects,
                   lost, recovered,
                   cancelled, invoked, streams, sweep, req,
                   render, tts, ffmpeg, template, rateLimiter,
                   download, delivery, queueLimit>>

\* the subscriber's listener on 'progress:<id>' for the event
\* {stage: status, ...extra} of updateJobStatus: stage done (or a result)
\* and stage failed (or an error) send the terminal event and clean up, any
\* other stage is a progress event (part_023 lines 196-211; emitted at
\* ffmpeg.js line 318)
OnProgress(stream, stage) ==
    IF stream.st = "open" /\ stage \in {"done", "failed"}
    THEN [st |-> "closed", terminal |-> stream.terminal + 1]
    ELSE stream

\* this.emit('progress:<id>', {stage: status, ...extra}) in updateJobStatus
\* (line 318), which a job that is not in the map does not reach
Emit(js, ss, id, stage) ==
    IF js[id] = NoJob THEN ss
    ELSE [ss EXCEPT ![id] = OnProgress(ss[id], stage)]

\* engine.run (and the uploads, whose errors are swallowed) returned:
\* updateJobStatus(id, 'done', {result}) up to its await (line 424)
EngineDone ==
    \E j \in running :
       /\ running' = running \ {j}
       /\ LET u == UpdateHead(jobs, writes, j, "done", 0, "none")
          IN  /\ jobs' = u.jobs
              /\ writes' = u.writes
       /\ streams' = Emit(jobs, streams, j, "done")
       /\ UNCHANGED <<order, disk, activeJobs, hooks, now, nextId, nCancels,
                      epoch, persisted, effects,
                   lost, recovered,
                   cancelled, invoked, workdir, sweep, req,
                   render, tts, ffmpeg, template, rateLimiter,
                   download, delivery, queueLimit>>

\* engine.run threw: updateJobStatus(id, 'failed', {error}) up to its await
\* (lines 426-428)
EngineFail ==
    \E j \in running :
       /\ running' = running \ {j}
       /\ LET u == UpdateHead(jobs, writes, j, "failed", 0, "engine")
          IN  /\ jobs' = u.jobs
              /\ writes' = u.writes
       /\ streams' = Emit(jobs, streams, j, "failed")
       /\ UNCHANGED <<order, disk, activeJobs, hooks, now, nextId, nCancels,
                      epoch, persisted, effects,
                   lost, recovered,
                   cancelled, invoked, workdir, sweep, req,
                   render, tts, ffmpeg, template, rateLimiter,
                   download, delivery, queueLimit>>

\* first iteration of sendWebhookWithRetry: copy the live record, POST it
\* (lines 499-512)
WebhookStart(job) ==
    [st |-> "posting", attempt |-> 1, waits |-> <<>>, body |-> job.status]

\* does updateJobStatus call sendWebhookWithRetry for this status (322, 338)
SendsWebhook(status, job) == status \in {"done", "failed"} /\ job.webhook

\* the `job` object the continuation of updateJobStatus still holds: the
\* live record, or for a job deleted from the map the record as last written
Held(w) == IF jobs[w.id] = NoJob THEN w.snap ELSE jobs[w.id]

Op(w) == [id |-> w.id, status |-> w.kind, n |-> w.n]
Effect(w, what) == [id |-> w.id, status |-> w.kind, n |-> w.n, what |-> what]

\* (variant) the dequeue waits for the webhook delivery to settle
DequeueAfterTerminal_deferred(js, ord, act, ws) ==
    [jobs |-> js, active |-> act, writes |-> ws]

\* this.processQueue() at the end of the done/failed branch: it is called
\* right after sendWebhookWithRetry, which is not awaited (lines 339-345)
DequeueAfterTerminal(js, ord, act, ws) == ProcessQueue(js, ord, act, ws)

\* updateJobStatus(id, 'done' | 'failed') after `await this.persistJob(job)`
\* (lines 322-345)
TerminalPersisted ==
    \E w \in writes :
       /\ w.kind \in {"done", "failed"}
       /\ LET q == DequeueAfterTerminal(jobs, order,
                                        Release(activeJobs, w.prev),
                                        writes \ {w})
          IN  /\ jobs' = q.jobs
              /\ activeJobs' = q.active
              /\ writes' = q.writes
       /\ disk' = [disk EXCEPT ![w.id] = PersistedRecord(disk[w.id], w.snap)]
       /\ persisted' = persisted \cup {Op(w)}
       /\ IF SendsWebhook(w.kind, Held(w))
          THEN /\ hooks' = [hooks EXCEPT ![w.id] = WebhookStart(Held(w))]
               /\ effects' = effects \cup {Effect(w, "webhook")}
          ELSE UNCHANGED <<hooks, effects>>
       /\ UNCHANGED <<order, running, now, nextId, nCancels, epoch, lost,
                      recovered,
                   cancelled, invoked, workdir, streams, sweep, req,
                   render, tts, ffmpeg, template, rateLimiter,
                   download, delivery, queueLimit>>

\* one cancelJob call: the job and the status it had when it was called
Cancellation(id, prev) == [id |-> id, prev |-> prev]

\* cancelJob up to the await inside updateJobStatus(id, 'cancelled')
\* (lines 432-436, 309-320)
CancelJob ==
    /\ nCancels < MaxCancels
    /\ \E j \in Ids :
          /\ jobs[j] # NoJob
          /\ LET u == UpdateHead(jobs, writes, j, "cancelled", nCancels + 1, "none")
             IN  /\ jobs' = u.jobs
                 /\ writes' = u.writes
          /\ cancelled' = cancelled \cup {Cancellation(j, jobs[j].status)}
    /\ nCancels' = nCancels + 1
    /\ UNCHANGED <<order, disk, activeJobs, running, hooks, now, nextId,
                   epoch, persisted, effects,
                   lost, recovered,
                   invoked, workdir, streams, sweep, req,
                   render, tts, ffmpeg, template, rateLimiter,
                   download, delivery, queueLimit>>

\* cleanupJob(id): fs.rm(temp/<id>, {recursive, force}) (lines 439-447)
CleanupJob(dirs, id) == dirs \ {id}

\* updateJobStatus(id, 'cancelled') after the write: release the slot,
\* cleanupJob, processQueue (lines 346-353)
CancelPersisted ==
    \E w \in writes :
       /\ w.kind = "cancelled"
       /\ LET q == ProcessQueue(jobs, order, Release(activeJobs, w.prev),
                                writes \ {w})
          IN  /\ jobs' = q.jobs
              /\ activeJobs' = q.active
              /\ writes' = q.writes
       /\ disk' = [disk EXCEPT ![w.id] = PersistedRecord(disk[w.id], w.snap)]
       /\ persisted' = persisted \cup {Op(w)}
       /\ effects' = effects \cup {Effect(w, "cleanup")}
       /\ workdir' = CleanupJob(workdir, w.id)
       /\ UNCHANGED <<order, running, hooks, now, nextId, nCancels, epoch,
                      lost, recovered,
                   cancelled, invoked, streams, sweep, req,
                   render, tts, ffmpeg, template, rateLimiter,
                   download, delivery, queueLimit>>

\* setTimeout(r, WEBHOOK_BACKOFF_MS * attempt) (line 522)
WebhookBackoff(attempt) == WEBHOOK_BACKOFF_MS * attempt

\* (variant) off-by-one loop bound
MoreAttempts_extra(attempt) == attempt <= MAX_WEBHOOK_RETRIES

\* is there another iteration after this attempt (lines 503, 521)
MoreAttempts(attempt) == attempt < MAX_WEBHOOK_RETRIES

\* one pass of the loop body of sendWebhookWithRetry after fetch settled
\* (lines 513-525)
AfterAttempt(h, r) ==
    IF r = "ok" THEN [h EXCEPT !.st = "delivered"]
    ELSE IF MoreAttempts(h.attempt)
         THEN [h EXCEPT !.st = "waiting",
                        !.waits = Append(h.waits, WebhookBackoff(h.attempt))]
         ELSE [h EXCEPT !.st = "exhausted"]

\* the fetch of the current attempt settles: 2xx, non-2xx, or it throws
WebhookResponse ==
    \E j \in Ids, r \in {"ok", "non2xx", "throw"} :
       /\ hooks[j].st = "posting"
       /\ hooks' = [hooks EXCEPT ![j] = AfterAttempt(hooks[j], r)]
       /\ UNCHANGED <<jobs, order, disk, activeJobs, writes, running, now,
                      nextId, nCancels, epoch, persisted, effects,
                   lost, recovered,
                   cancelled, invoked, workdir, streams, sweep, req,
                   render, tts, ffmpeg, template, rateLimiter,
                   download, delivery, queueLimit>>

\* the backoff timer fires: next iteration, next POST
WebhookRetry ==
    \E j \in Ids :
       /\ hooks[j].st = "waiting"
       /\ hooks' = [hooks EXCEPT ![j].st = "posting",
                                 ![j].attempt = hooks[j].attempt + 1]
       /\ UNCHANGED <<jobs, order, disk, activeJobs, writes, running, now,
                      nextId, nCancels, epoch, persisted, effects,
                   lost, recovered,
                   cancelled, invoked, workdir, streams, sweep, req,
                   render, tts, ffmpeg, template, rateLimiter,
                   download, delivery, queueLimit>>

\* (variant) only 'processing' is recovered
Interrupted_onlyProcessing(status) == status = "processing"

\* the statuses init() rewrites to failed (line 251)
Interrupted(status) == status = "processing" \/ status = "preparing"

\* what init() holds for one persisted record (lines 247-256)
Recover(rec) ==
    IF Interrupted(rec.status)
    THEN [rec EXCEPT !.status = "failed", !.error = "restart"]
    ELSE rec

\* the orders fs.readdir may list a set of files in
Listings(S) ==
    {s \in [1..Cardinality(S) -> S] : \A a, b \in 1..Cardinality(S) :
                                          s[a] = s[b] => a = b}

\* the process dies (every in-flight task, the memory and the open streams
\* are lost) and start() runs init() to completion before the server
\* listens: it wipes the temp directory (lines 228-240) and loads the
\* persisted records; a cancellation is known afterwards if it was written
\* (lines 226-265; server start: middleware/auth.js lines 69-79)
Restart ==
    /\ epoch < MaxRestarts
    /\ epoch' = epoch + 1
    /\ \E ord \in Listings({j \in Ids : disk[j] # NoJob}) :
          LET loaded == [j \in Ids |-> Recover(disk[j])]
              q == ProcessQueue(loaded, ord, 0, {})
          IN  /\ order' = ord
              /\ disk' = [j \in Ids |-> IF Interrupted(disk[j].status)
                                        THEN PersistedRecord(disk[j], loaded[j])
                                        ELSE disk[j]]
              /\ jobs' = q.jobs
              /\ activeJobs' = q.active
              /\ writes' = q.writes
    /\ running' = {}
    /\ hooks' = [j \in Ids |-> NoHook]
    /\ recovered' = recovered \cup {j \in Ids : Interrupted(disk[j].status)}
    /\ persisted' = {}
    /\ effects' = {}
    /\ lost' = {}
    /\ cancelled' = {c \in cancelled : disk[c.id].status = "cancelled"}
    /\ workdir' = {}
    /\ streams' = [j \in Ids |-> NoStream]
    /\ sweep' = NoSweep
    /\ UNCHANGED <<now, nextId, nCancels, invoked, req,
                   render, tts, ffmpeg, template, rateLimiter,
                   download, delivery, queueLimit>>

Next ==
    \/ CreateJob
    \/ CreatePersisted
    \/ PreparingPersisted
    \/ ProcessingPersisted
    \/ EngineDone
    \/ EngineFail
    \/ TerminalPersisted
    \/ CancelJob
    \/ CancelPersisted
    \/ WebhookResponse
    \/ WebhookRetry
    \/ Restart

Spec == Init /\ [][Next]_vars

\* ------------------------------------------- the service under any limit
\* config.queue.compositionConcurrency set to 1..MaxLimit
MaxLimit == 2

QueueSpec == (\E n \in 1..MaxLimit : InitWith(n)) /\ [][Next]_vars

\* ---------------------------------------------- one lifetime, fair scheduling
\* The event loop runs every continuation whose I/O has completed, and every
\* engine run returns or throws.
NextLive ==
    \/ CreateJob
    \/ CreatePersisted
    \/ PreparingPersisted
    \/ ProcessingPersisted
    \/ EngineDone
    \/ EngineFail
    \/ TerminalPersisted
    \/ CancelJob
    \/ CancelPersisted
    \/ WebhookResponse
    \/ WebhookRetry

LiveSpec ==
    /\ Init
    /\ [][NextLive]_vars
    /\ WF_vars(CreatePersisted)
    /\ WF_vars(PreparingPersisted)
    /\ WF_vars(ProcessingPersisted)
    /\ WF_vars(EngineDone \/ EngineFail)
    /\ WF_vars(TerminalPersisted)
    /\ WF_vars(CancelPersisted)

\* ------------------------------------------------------- failing disk writes
\* fs.writeFile rejects: `await this.persistJob(job)` throws out of
\* updateJobStatus (line 320) or createJob (line 282).  Inside executeJob's
\* try block the catch runs updateJobStatus(id, 'failed', {error}) (lines
\* 426-428); everywhere else the caller just rejects.
WriteFails ==
    \E w \in writes :
       /\ IF w.kind \in {"processing", "done"}
          THEN LET u == UpdateHead(jobs, writes \ {w}, w.id, "failed", 0,
                                   "write")
               IN  /\ jobs' = u.jobs
                   /\ writes' = u.writes
          ELSE /\ writes' = writes \ {w}
               /\ jobs' = jobs
       /\ lost' = IF w.kind \in Terminal THEN lost \cup {Op(w)} ELSE lost
       /\ streams' = IF w.kind \in {"processing", "done"}
                     THEN Emit(jobs, streams, w.id, "failed")
                     ELSE streams
       /\ UNCHANGED <<order, disk, activeJobs, running, hooks, now, nextId,
                      nCancels, epoch, persisted, effects, recovered,
                   cancelled, invoked, workdir, sweep, req,
                   render, tts, ffmpeg, template, rateLimiter,
                   download, delivery, queueLimit>>

\* a restart in which the write of a recovered record fails: the catch at
\* line 260 ends the loading loop, the records listed before it are loaded,
\* the one being recovered is failed in memory only, the rest are not loaded
RestartWriteFails ==
    /\ epoch < MaxRestarts
    /\ epoch' = epoch + 1
    /\ \E ord \in Listings({j \in Ids : disk[j] # NoJob}) :
       \E k \in 1..Len(ord) :
          LET seen == {ord[i] : i \in 1..k}
              loaded == [j \in Ids |-> IF j \in seen THEN Recover(disk[j])
                                                     ELSE NoJob]
              q == ProcessQueue(loaded, SubSeq(ord, 1, k), 0, {})
          IN  /\ Interrupted(disk[ord[k]].status)
              /\ order' = SubSeq(ord, 1, k)
              /\ disk' = [j \in Ids |->
                            IF j \in seen \ {ord[k]} /\ Interrupted(disk[j].status)
                            THEN PersistedRecord(disk[j], loaded[j])
                            ELSE disk[j]]
              /\ jobs' = q.jobs
              /\ activeJobs' = q.active
              /\ writes' = q.writes
              /\ recovered' = recovered \cup
                                 {j \in seen : Interrupted(disk[j].status)}
    /\ running' = {}
    /\ hooks' = [j \in Ids |-> NoHook]
    /\ persisted' = {}
    /\ effects' = {}
    /\ lost' = {}
    /\ cancelled' = {c \in cancelled : disk[c.id].status = "cancelled"}
    /\ workdir' = {}
    /\ streams' = [j \in Ids |-> NoStream]
    /\ sweep' = NoSweep
    /\ UNCHANGED <<now, nextId, nCancels, invoked, req,
                   render, tts, ffmpeg, template, rateLimiter,
                   download, delivery, queueLimit>>

\* The steps of the service with failing writes.  The answer to a webhook
\* POST and its retries (WebhookResponse, WebhookRetry) change `hooks` only,
\* neither the job store nor what a transition triggers, and are left out.
NextFaulty ==
    \/ CreateJob
    \/ CreatePersisted
    \/ PreparingPersisted
    \/ ProcessingPersisted
    \/ EngineDone
    \/ EngineFail
    \/ TerminalPersisted
    \/ CancelJob
    \/ CancelPersisted
    \/ Restart
    \/ WriteFails
    \/ RestartWriteFails

FaultySpec == Init /\ [][NextFaulty]_vars

\* ------------------------------------------- jobs of every accepted payload
\* the payloads that differ for the job manager and the engines: the mode,
\* and for a composition whether a clip names its source by url or by query
PayloadKinds ==
    {[mode |-> "assembly", clip |-> "url"],
     [mode |-> "composition", clip |-> "url"],
     [mode |-> "composition", clip |-> "query"]}

CreateAnyJob ==
    /\ \E k \in PayloadKinds, t \in {now, now + 1} :
          CreateWith(t, FALSE, k.mode, k.clip)
    /\ UNCHANGED req

\* the composition engine's clip loop resolves a stock query: the result is
\* stored on the clip descriptor of job.payload itself, `clips` being
\* job.payload.composition.clips (part_021 lines 47-48, 77-86)
EngineResolve ==
    \E j \in running :
       /\ jobs[j].mode = "composition"
       /\ jobs[j].clip = "query"
       /\ jobs' = [jobs EXCEPT ![j].clip = "query+stock"]
       /\ UNCHANGED <<order, disk, activeJobs, writes, running, hooks, now,
                      nextId, nCancels, epoch, persisted, effects, lost,
                      recovered, cancelled, invoked, workdir, streams, sweep,
                      req,
                   render, tts, ffmpeg, template, rateLimiter,
                   download, delivery, queueLimit>>

NextPayload ==
    \/ CreateAnyJob
    \/ CreatePersisted
    \/ PreparingPersisted
    \/ ProcessingPersisted
    \/ EngineResolve
    \/ EngineDone
    \/ EngineFail
    \/ TerminalPersisted

PayloadSpec == Init /\ [][NextPayload]_vars

\* ------------------------------------------------- GET /jobs/:id/stream
\* a job without webhook_url, its clips given by url, is submitted
CreatePlainJob ==
    /\ \E t \in {now, now + 1} : CreateWith(t, FALSE, "composition", "url")
    /\ UNCHANGED req

\* a client opens the stream of a job: an already terminal job gets its
\* final event at once and the reply ends, otherwise the listener is
\* registered (part_023 lines 163-218)
Subscribe ==
    \E j \in Ids :
       /\ jobs[j] # NoJob
       /\ streams[j].st = "none"
       /\ streams' = [streams EXCEPT ![j] =
                         IF jobs[j].status \in {"done", "failed", "cancelled"}
                         THEN [st |-> "closed", terminal |-> 1]
                         ELSE [st |-> "open", terminal |-> 0]]
       /\ UNCHANGED <<jobs, order, disk, activeJobs, writes, running, hooks,
                      now, nextId, nCancels, epoch, persisted, effects, lost,
                      recovered, cancelled, invoked, workdir, sweep, req,
                   render, tts, ffmpeg, template, rateLimiter,
                   download, delivery, queueLimit>>

\* the client disconnects: request.raw.on('close', cleanup) (line 221)
ClientClose ==
    \E j \in Ids :
       /\ streams[j].st = "open"
       /\ streams' = [streams EXCEPT ![j].st = "left"]
       /\ UNCHANGED <<jobs, order, disk, activeJobs, writes, running, hooks,
                      now, nextId, nCancels, epoch, persisted, effects, lost,
                      recovered, cancelled, invoked, workdir, sweep, req,
                   render, tts, ffmpeg, template, rateLimiter,
                   download, delivery, queueLimit>>

NextStream ==
    \/ CreatePlainJob
    \/ CreatePersisted
    \/ PreparingPersisted
    \/ ProcessingPersisted
    \/ EngineDone
    \/ EngineFail
    \/ TerminalPersisted
    \/ CancelJob
    \/ CancelPersisted
    \/ Subscribe
    \/ ClientClose

StreamSpec == Init /\ [][NextStream]_vars

\* ------------------------------------------------------- cleanupOldJobs
\* the values of `now - updated_at` (ms) and of the temp directory's size
\* (MB) explored: on both sides of each threshold
Ages == {6 * 60 * 60 * 1000, 6 * 60 * 60 * 1000 + 1,
         24 * 60 * 60 * 1000, 24 * 60 * 60 * 1000 + 1}
TempSizes == {2048, 2049}

\* (variant) the short threshold whatever the disk usage
MaxAge_short(tempSizeMB) == 6 * 60 * 60 * 1000

\* maxAge = tempSizeMB > 2048 ? 6 h : 24 h (line 459)
MaxAge(tempSizeMB) ==
    IF tempSizeMB > 2048 THEN 6 * 60 * 60 * 1000 ELSE 24 * 60 * 60 * 1000

\* the test the loop makes on each job (lines 467-469)
Sweepable(status, age, maxAge) == status \in Terminal /\ age > maxAge

\* this.jobs.delete(id): the Map without the entry
Remove(ord, id) == SelectSeq(ord, LAMBDA x : x # id)

\* The loop `for (const [id, job] of this.jobs)` from where it stands up to
\* its next await (lines 466-476): it visits the entries of the Map in
\* insertion order, the job's age being what the clock makes it, and at the
\* first old terminal job deletes the map entry and starts fs.unlink; when
\* no entry is left the sweep is over.
Scan(sw) ==
    \E age \in [Ids -> Ages] :
       LET todo == {i \in 1..Len(order) : order[i] \notin sw.visited}
           hit == {i \in todo : Sweepable(jobs[order[i]].status, age[order[i]],
                                          MaxAge(sw.tempSizeMB))}
       IN  IF hit = {}
           THEN /\ sweep' = [NoSweep EXCEPT !.n = sw.n]
                /\ UNCHANGED <<jobs, order>>
           ELSE LET i == CHOOSE h \in hit : \A k \in hit : h <= k
                    d == order[i]
                IN  /\ jobs' = [jobs EXCEPT ![d] = NoJob]
                    /\ order' = Remove(order, d)
                    /\ sweep' = [st |-> "unlinking", n |-> sw.n,
                                 tempSizeMB |-> sw.tempSizeMB,
                                 visited |-> sw.visited \cup
                                    {order[k] : k \in {h \in todo : h <= i}},
                                 id |-> d, status |-> jobs[d].status,
                                 age |-> age[d]]

\* the cleanup interval fires: cleanupOldJobs up to
\* `await this.getDirSizeMB(...)` (lines 449-455)
SweepStart ==
    /\ sweep.st = "idle"
    /\ sweep.n < MaxSweeps
    /\ sweep' = [sweep EXCEPT !.st = "measuring", !.n = sweep.n + 1]
    /\ UNCHANGED <<jobs, order, disk, activeJobs, writes, running, hooks, now,
                   nextId, nCancels, epoch, persisted, effects, lost,
                   recovered, cancelled, invoked, workdir, streams, req,
                   render, tts, ffmpeg, template, rateLimiter,
                   download, delivery, queueLimit>>

\* the directory size is known: the threshold is chosen and the loop starts
\* (lines 456-466)
SweepMeasured ==
    /\ sweep.st = "measuring"
    /\ \E mb \in TempSizes : Scan([sweep EXCEPT !.tempSizeMB = mb])
    /\ UNCHANGED <<disk, activeJobs, writes, running, hooks, now, nextId,
                   nCancels, epoch, persisted, effects, lost, recovered,
                   cancelled, invoked, workdir, streams, req,
                   render, tts, ffmpeg, template, rateLimiter,
                   download, delivery, queueLimit>>

\* fs.unlink of the job's record settled: either the file is gone and
\* cleanupJob(id) is called, or there was no file, the catch swallows the
\* error and the loop goes on (lines 472-475)
SweepUnlinked ==
    /\ sweep.st = "unlinking"
    /\ IF disk[sweep.id] # NoJob
       THEN /\ disk' = [disk EXCEPT ![sweep.id] = NoJob]
            /\ sweep' = [sweep EXCEPT !.st = "removing"]
            /\ UNCHANGED <<jobs, order>>
       ELSE /\ Scan(sweep)
            /\ UNCHANGED disk
    /\ UNCHANGED <<activeJobs, writes, running, hooks, now, nextId,
                   nCancels, epoch, persisted, effects, lost, recovered,
                   cancelled, invoked, workdir, streams, req,
                   render, tts, ffmpeg, template, rateLimiter,
                   download, delivery, queueLimit>>

\* cleanupJob(id) of the sweep returned: the loop goes on (lines 474-476)
SweepRemoved ==
    /\ sweep.st = "removing"
    /\ workdir' = CleanupJob(workdir, sweep.id)
    /\ Scan(sweep)
    /\ UNCHANGED <<disk, activeJobs, writes, running, hooks, now, nextId,
                   nCancels, epoch, persisted, effects, lost, recovered,
                   cancelled, invoked, streams, req,
                   render, tts, ffmpeg, template, rateLimiter,
                   download, delivery, queueLimit>>

NextSweep ==
    \/ CreatePlainJob
    \/ CreatePersisted
    \/ PreparingPersisted
    \/ ProcessingPersisted
    \/ EngineDone
    \/ EngineFail
    \/ TerminalPersisted
    \/ CancelJob
    \/ CancelPersisted
    \/ SweepStart
    \/ SweepMeasured
    \/ SweepUnlinked
    \/ SweepRemoved

SweepSpec == Init /\ [][NextSweep]_vars

\* ------------------------------------------------------------- POST /jobs
\* isValidUrl(str): new URL(str) parses and the protocol is http: or https:
\* (part_023 lines 4-11)
IsValidUrl(u) == u.parses /\ u.protocol \in {"http:", "https:"}

\* the first entry that is an error message, "ok" if there is none: the
\* checks of the route run in order and the first failing one returns
FirstError(errs) ==
    IF \A i \in DOMAIN errs : errs[i] = "ok" THEN "ok"
    ELSE errs[CHOOSE i \in DOMAIN errs :
                 /\ errs[i] # "ok"
                 /\ \A k \in DOMAIN errs : k < i => errs[k] = "ok"]

\* (variant) only the empty array is refused
ClipCountOk_unbounded(n) == ~ (n = 0)

\* comp.clips.length === 0 || comp.clips.length > 20 (part_023 line 32)
ClipCountOk(n) == ~ (n = 0 \/ n > 20)

\* the checks made on each clip (part_023 lines 35-55)
ClipError(p) ==
    FirstError(<<
       IF ~ p.clipUrl.given /\ ~ p.clipQuery
          THEN "Each clip must have a url or query field." ELSE "ok",
       IF p.clipUrl.given /\ p.clipUrl.http /\ ~ IsValidUrl(p.clipUrl)
          THEN "Invalid clip URL" ELSE "ok",
       IF /\ p.speed.type # "undefined"
          /\ (p.speed.type # "number" \/ p.speed.x100 < 25 \/ p.speed.x100 > 400)
          THEN "clip.speed must be between 0.25 and 4.0" ELSE "ok",
       IF p.blur_background \notin {"undefined", "boolean"}
          THEN "clip.blur_background must be a boolean" ELSE "ok",
       IF p.transition = "string"
          THEN "Clip transition must be an object" ELSE "ok">>)

validFormats == {"shorts", "reels", "tiktok", "landscape", "youtube",
                 "square", "instagram", "portrait_4_5"}

\* composition-specific validation (part_023 lines 24-98)
CompositionError(p) ==
    FirstError(<<
       IF ~ p.comp THEN "Missing composition object" ELSE "ok",
       IF p.clips = "array"
          THEN IF ~ ClipCountOk(p.nclips) THEN "clips must have 1-20 items."
                                          ELSE ClipError(p)
          ELSE IF ~ p.input.given THEN "Either clips array or input URL required."
                                  ELSE "ok",
       IF p.overlays > 5 THEN "Maximum 5 overlays allowed." ELSE "ok",
       IF p.overlays > 0 /\ ~ p.overlayUrl
          THEN "Each overlay must have a url." ELSE "ok",
       IF p.output_format # "none" /\ p.output_format \notin validFormats
          THEN "Invalid output_format" ELSE "ok",
       IF p.quality # "none" /\ p.quality \notin {"draft", "full"}
          THEN "quality must be draft or full." ELSE "ok",
       IF p.subtitles = "bad"
          THEN "Each subtitle must have text, start, and end." ELSE "ok",
       IF p.voText > 5000
          THEN "voice_over.text exceeds 5000 character limit." ELSE "ok">>)

\* assembly-specific validation (part_023 lines 101-113)
AssemblyError(p) ==
    FirstError(<<
       IF p.timeline # "array"
          THEN "Assembly mode requires assembly.timeline array." ELSE "ok",
       IF p.nsegs = 0 \/ p.nsegs > 50
          THEN "timeline must have 1-50 segments." ELSE "ok",
       IF ~ p.segUrl.given \/ ~ IsValidUrl(p.segUrl)
          THEN "Invalid segment URL" ELSE "ok">>)

\* the validation of POST /jobs: the error message of the 400 response, or
\* "ok" when the route goes on to createJob (part_023 lines 16-118)
Validate(p) ==
    FirstError(<<
       IF p.mode \notin {"assembly", "composition"} THEN "Invalid mode." ELSE "ok",
       IF p.mode = "composition" THEN CompositionError(p) ELSE "ok",
       IF p.mode = "assembly" THEN AssemblyError(p) ELSE "ok",
       IF p.webhook_url.given /\ ~ IsValidUrl(p.webhook_url)
          THEN "Invalid webhook_url." ELSE "ok">>)

\* how the accepted payload's clip descriptor names its source
ClipKind(p) ==
    IF p.clips = "array" /\ ~ p.clipUrl.given THEN "query" ELSE "url"

\* POST /jobs: a 400 response, or createJob(payload) up to its await and,
\* when that resolves, {job_id, status: 'queued'} (part_023 lines 15-122)
Submit ==
    \E p \in Payloads :
       IF Validate(p) = "ok"
       THEN /\ \E t \in {now, now + 1} :
                  CreateWith(t, p.webhook_url.given, p.mode, ClipKind(p))
            /\ req' = [payload |-> p, code |-> 200]
       ELSE /\ req' = [payload |-> p, code |-> 400]
            /\ UNCHANGED <<jobs, order, disk, activeJobs, writes, running,
                           hooks, now, nextId, nCancels, epoch, persisted,
                           effects, lost, recovered, cancelled, invoked,
                           workdir, streams, sweep,
                   render, tts, ffmpeg, template, rateLimiter,
                   download, delivery, queueLimit>>

NextValidate ==
    \/ Submit
    \/ CreatePersisted

ValidateSpec == Init /\ [][NextValidate]_vars

\* =================================================== composition engine
\* The filter stage of CompositionEngine.run (src/unnamed/part_021) and the
\* other components below have a state of their own; the job manager's
\* variables stay as they are while they act.
JobManagerVars ==
    <<jobs, order, disk, activeJobs, writes, running, hooks, now, nextId,
      nCancels, epoch, persisted, effects, lost, recovered, cancelled,
      invoked, workdir, streams, sweep, req>>

\* Durations are in milliseconds, speeds in hundredths, 0 stands for a field
\* the payload does not give (`clip.duration || 5`, `clip.speed`).
MaxClips == 3

DefaultClipDuration == 5000
DefaultTransitionDuration == 500
MinSpeed == 25
MaxSpeed == 400
ImageExtensions == {"jpg", "jpeg", "png", "webp", "gif", "bmp"}

\* job._voDuration: 0 when the job has no narration
Narrations == {0, 10000, 12000}

Transitions ==
    {NoTransition, Transition("fade", 500), Transition("fade", 2000),
     Transition("fade", 0), Transition("none", 500)}

\* the fields of one payload clip the filter stage reads
Clip(d, s, tr, type, ext, isImage) ==
    [duration |-> d, speed |-> s, transition |-> tr, type |-> type,
     ext |-> ext, isImage |-> isImage]

VideoClips ==
    {Clip(d, 0, tr, "video", "mp4", FALSE) :
        d \in {1000, 5000}, tr \in Transitions}
    \cup {Clip(0, 0, NoTransition, "video", "mp4", FALSE),
          Clip(5000, 200, NoTransition, "video", "mp4", FALSE),
          Clip(5000, 200, Transition("fade", 500), "video", "mp4", FALSE)}

ImageClips ==
    {Clip(d, 0, NoTransition, type, ext, isImage) :
        d \in {0, 330, 2500}, type \in {"video", "image"},
        ext \in {"mp4", "jpg"}, isImage \in BOOLEAN}

SeqsUpTo(S, n) == UNION {[1..k -> S] : k \in 1..n}

RECURSIVE SumTo(_, _)
SumTo(f, n) == IF n = 0 THEN 0 ELSE SumTo(f, n - 1) + f[n]

Sum(f) == SumTo(f, Len(f))

MaxOf(a, b) == IF a >= b THEN a ELSE b
MinOf(a, b) == IF a <= b THEN a ELSE b

\* const isImage = clip.type === 'image' || /\.(jpg|...)$/i.test(clip.url):
\* the flag goes into clipFiles (lines 93, 116-124)
IsImage(clip) == clip.type = "image" \/ clip.ext \in ImageExtensions

ClipFiles(clips) == [i \in 1..Len(clips) |-> [isImage |-> IsImage(clips[i])]]

\* clip.duration || 5
Declared(clip) ==
    IF clip.duration = 0 THEN DefaultClipDuration ELSE clip.duration

\* clips.reduce((acc, c) => acc + (c.duration || 5), 0)  (line 313)
TotalVisualDuration(clips) ==
    Sum([i \in 1..Len(clips) |-> Declared(clips[i])])

\* Math.max(totalVisualDuration, voDuration)  (line 314)
FinalDuration(clips, vo) == MaxOf(TotalVisualDuration(clips), vo)

\* Math.max(0.25, Math.min(4.0, speed))
ClampSpeed(s) == MaxOf(MinSpeed, MinOf(MaxSpeed, s))

\* tpad stop_duration of clip i: only the last clip, only when the narration
\* is longer than the declared durations (lines 385-388)
PadTime(clips, i, vo) ==
    IF i = Len(clips) /\ FinalDuration(clips, vo) > TotalVisualDuration(clips)
    THEN FinalDuration(clips, vo) - TotalVisualDuration(clips)
    ELSE 0

\* the filters of clip i the loop pushes (lines 316-390).  The branch is
\* chosen by clip.isImage of the payload clip; frames is kept in thousandths
\* of a frame: `dur * template.fps` is not rounded
ClipFilters(clips, i, tpl, vo) ==
    LET clip == clips[i]
    IN  [zoompan |-> clip.isImage,
         frames  |-> IF clip.isImage THEN Declared(clip) * tpl.fps ELSE 0,
         trim    |-> IF clip.isImage THEN 0 ELSE clip.duration,
         tpad    |-> PadTime(clips, i, vo)]

\* effectiveDuration of clip i (lines 393-400)
EffectiveDuration(clips, i, vo) ==
    LET clip == clips[i]
        e == IF clip.speed # 0 /\ clip.speed # 100
             THEN (Declared(clip) * 100) \div ClampSpeed(clip.speed)
             ELSE Declared(clip)
    IN  e + PadTime(clips, i, vo)

\* processedClips (lines 402-408)
ProcessedClips(clips, tpl, vo) ==
    [i \in 1..Len(clips) |->
        [effectiveDuration |-> EffectiveDuration(clips, i, vo),
         transition |-> IF clips[i].transition.given
                        THEN clips[i].transition ELSE tpl.transition]]

\* trans.duration || 0.5  (line 642)
TransitionDuration(trans) ==
    IF trans.duration = 0 THEN DefaultTransitionDuration ELSE trans.duration

\* (variant) the clips are laid end to end, the overlap is not taken off
XfadeOffset_noOverlap(runningOffset, dur) == runningOffset

\* Math.max(0, runningOffset - dur)  (line 643)
XfadeOffset(runningOffset, dur) == MaxOf(0, runningOffset - dur)

\* runningOffset after clip i of the loop of buildTransitionChain
\* (lines 634-658)
RECURSIVE RunningOffset(_, _)
RunningOffset(pc, i) ==
    IF i = 1 THEN pc[1].effectiveDuration
    ELSE LET trans == pc[i].transition
             r == RunningOffset(pc, i - 1)
         IN  IF trans.given /\ trans.type # "none"
             THEN XfadeOffset(r, TransitionDuration(trans))
                     + pc[i].effectiveDuration
             ELSE r + pc[i].effectiveDuration

\* buildTransitionChain(clips, filterComplex).duration  (lines 619-662)
BuildTransitionChain(pc) ==
    IF \A i \in 1..Len(pc) : ~pc[i].transition.given
    THEN Sum([i \in 1..Len(pc) |-> pc[i].effectiveDuration])
    ELSE RunningOffset(pc, Len(pc))

\* totalVideoDuration (lines 411-421)
TotalVideoDuration(pc) ==
    IF Len(pc) = 1 THEN pc[1].effectiveDuration ELSE BuildTransitionChain(pc)

\* totalDuration of the progress bar overlay (lines 483-493): the first
\* clip's effective duration, then for each further clip its effective
\* duration less `(trans && trans.type) ? (trans.duration || 0.5) : 0`
ProgressBarDuration(pc) ==
    IF Len(pc) = 0 THEN 0
    ELSE Sum([i \in 1..Len(pc) |->
                IF i = 1 THEN pc[1].effectiveDuration
                ELSE LET trans == pc[i].transition
                     IN  pc[i].effectiveDuration
                            - (IF trans.given /\ trans.type # "none"
                               THEN TransitionDuration(trans) ELSE 0)])

\* the value of the encoder's `-t` argument (line 576)
EncoderT(clips, vo) == FinalDuration(clips, vo)

\* one filter of the audio part of the graph: its name, the stream labels it
\* reads and writes, and its numeric argument (amix inputs=, atrim duration=)
Filter(name, inputs, outputs, arg) ==
    [filter |-> name, inputs |-> inputs, outputs |-> outputs, arg |-> arg]

\* Math.ceil(finalDuration) + 1, in seconds  (lines 545, 553)
SafeDuration(finalDuration) == ((finalDuration + 999) \div 1000) + 1

\* (variant) the silent track is not counted among the mixer's inputs
MixCount_noSilence(audioMixInputs) == Len(audioMixInputs) - 1

\* amix=inputs=${audioMixInputs.length}  (line 550)
MixCount(audioMixInputs) == Len(audioMixInputs)

\* the audio pipeline (lines 505-556): voFile and musicFile say whether the
\* narration and the music were given, isDucking is the resolved duck flag
AudioPipeline(voFile, musicFile, isDucking, finalDuration) ==
    LET duck == musicFile /\ isDucking /\ voFile
        voStream == IF ~voFile THEN "none"
                    ELSE IF duck THEN "vo_main" ELSE "vo"
        musicFilters ==
            IF ~musicFile THEN <<>>
            ELSE IF duck
                 THEN <<Filter("asplit", <<"vo">>, <<"vo_main", "vo_sc">>, 2),
                        Filter("volume", <<"music">>, <<"mvol">>, 0),
                        Filter("sidechaincompress", <<"mvol", "vo_sc">>,
                               <<"mduck">>, 0)>>
                 ELSE <<Filter("volume", <<"music">>, <<"mvol">>, 0)>>
        musicStream == IF duck THEN "mduck" ELSE "mvol"
        audioMixInputs ==
            (IF musicFile THEN <<musicStream>> ELSE <<>>)
               \o (IF voFile THEN <<voStream>> ELSE <<>>)
        silence == Filter("anullsrc", <<>>, <<"asil">>,
                          SafeDuration(finalDuration))
    IN  IF Len(audioMixInputs) > 0
        THEN LET mixIn == Append(audioMixInputs, "asil")
             IN  [filters |-> musicFilters
                        \o <<silence,
                              Filter("amix", mixIn, <<"amix">>, MixCount(mixIn))>>,
                  lastAudioStream |-> "amix"]
        ELSE [filters |-> musicFilters \o <<silence>>,
              lastAudioStream |-> "asil"]

\* the run of the filter stage and of the encoder's argument list over the
\* clips, the narration duration, the music and the effective template
\* (lines 311-578); vo is job._voDuration, voFile whether there is a narration
BuildFilterGraph(clips, vo, tpl, voFile, musicFile, isDucking) ==
    /\ render = NoRender
    /\ render' =
          [clips |-> clips, vo |-> vo, template |-> tpl,
           clipFiles |-> ClipFiles(clips),
           finalDuration |-> FinalDuration(clips, vo),
           filters |-> [i \in 1..Len(clips) |-> ClipFilters(clips, i, tpl, vo)],
           processedClips |-> ProcessedClips(clips, tpl, vo),
           totalVideoDuration |-> TotalVideoDuration(ProcessedClips(clips, tpl, vo)),
           progressDuration |-> ProgressBarDuration(ProcessedClips(clips, tpl, vo)),
           voFile |-> voFile, musicFile |-> musicFile, isDucking |-> isDucking,
           audio |-> AudioPipeline(voFile, musicFile, isDucking,
                                   FinalDuration(clips, vo)),
           subtitles |-> NoRender.subtitles,
           t |-> EncoderT(clips, vo)]
    /\ UNCHANGED <<JobManagerVars, tts, ffmpeg, template, rateLimiter,
                   download, delivery, queueLimit>>

\* a job of video clips
RenderVideo ==
    \E clips \in SeqsUpTo(VideoClips, MaxClips), vo \in Narrations,
       tr \in {NoTransition, Transition("fade", 500)} :
          BuildFilterGraph(clips, vo, Template(tr, DefaultFps), vo # 0, FALSE, FALSE)

RenderSpec == Init /\ [][RenderVideo]_vars

\* a job whose clips are images or videos, at the template's frame rate
RenderImages ==
    \E clips \in SeqsUpTo(ImageClips, MaxClips - 1), fps \in {24, DefaultFps} :
          BuildFilterGraph(clips, 0, Template(NoTransition, fps), FALSE, FALSE, FALSE)

ImageSpec == Init /\ [][RenderImages]_vars

\* a job with or without narration, with or without music, ducking on or off
AudioClips ==
    {Clip(d, 0, NoTransition, "video", "mp4", FALSE) : d \in {0, 330, 2500}}

RenderAudio ==
    \E clips \in SeqsUpTo(AudioClips, MaxClips - 1), vo \in {0, 4200, 10000},
       voFile \in BOOLEAN, musicFile \in BOOLEAN, isDucking \in BOOLEAN :
          BuildFilterGraph(clips, vo, Template(NoTransition, DefaultFps),
                           voFile, musicFile, isDucking)

AudioSpec == Init /\ [][RenderAudio]_vars

\* ================================================== word-highlight captions
\* WordHighlight.generate and formatTime (part_017).  Times are in
\* milliseconds; a timestamp of the ASS file is the record of its four
\* printed fields h:mm:ss.cc.
MaxWords == 5

DefaultWordsPerLine == 4

\* the timings of a word: start and end
WordTimes ==
    {[start |-> 0, end |-> 450], [start |-> 455, end |-> 1234],
     [start |-> 1239, end |-> 61999], [start |-> 3599990, end |-> 3600015]}

\* formatTime(seconds): floor of the hours, minutes, seconds and hundredths
\* (lines 130-137)
FormatTime(ms) ==
    [h  |-> ms \div 3600000,
     m  |-> (ms % 3600000) \div 60000,
     s  |-> (ms % 60000) \div 1000,
     cc |-> (ms % 1000) \div 10]

\* options.wordsPerLine || 4  (line 33)
WordsPerLine(option) == IF option = 0 THEN DefaultWordsPerLine ELSE option

\* the indices of the words of the line that holds word k:
\* wordTimings.slice(i, i + wordsPerLine) for i = 0, wordsPerLine, ...
LineOf(wordTimings, n, k) ==
    LET first == ((k - 1) \div n) * n + 1
    IN  [i \in 1..MinOf(n, Len(wordTimings) - first + 1) |-> first + i - 1]

\* (variant) every event ends at its own word's end
WordEnd_own(wordTimings, line, wi) == wordTimings[line[wi]].end

\* wi < line.words.length - 1 ? line.words[wi + 1].start : word.end (line 70)
WordEnd(wordTimings, line, wi) ==
    IF wi < Len(line) THEN wordTimings[line[wi + 1]].start
    ELSE wordTimings[line[wi]].end

\* the Dialogue events of generate, in the order pushed (lines 36-86): one
\* for each word of each line, with the line's words as text and the
\* event's own word highlighted
Events(wordTimings, n) ==
    [k \in 1..Len(wordTimings) |->
        LET line == LineOf(wordTimings, n, k)
            wi == k - line[1] + 1
        IN  [startTs |-> FormatTime(wordTimings[k].start),
             endTs |-> FormatTime(WordEnd(wordTimings, line, wi)),
             text |-> line,
             highlighted |-> k]]

\* WordHighlight.generate(wordTimings, { wordsPerLine })
Generate(wordTimings, option) ==
    /\ render = NoRender
    /\ render' = [NoRender EXCEPT
                    !.subtitles = [wordTimings |-> wordTimings,
                                   wordsPerLine |-> option,
                                   events |-> Events(wordTimings,
                                                     WordsPerLine(option))]]
    /\ UNCHANGED <<JobManagerVars, tts, ffmpeg, template, rateLimiter,
                   download, delivery, queueLimit>>

GenerateSubtitles ==
    \E wordTimings \in SeqsUpTo(WordTimes, MaxWords), option \in {0, 1, 2} :
       Generate(wordTimings, option)

SubtitleSpec == Init /\ [][GenerateSubtitles]_vars

\* ================================================== narration fallback
\* The provider loop of CompositionEngine.run (part_021 lines 147-188).
\* `voSource.provider || 'kie'`; a name that is none of openai, huggingface,
\* edge goes to KieVoice
ProviderNames == {"kie", "openai", "huggingface", "edge", "elevenlabs"}

\* providers whose API key may be missing from the environment
Keyed == {"openai", "huggingface"}

\* messages of the errors a provider's generateVoiceOver can throw
Messages == {"timeout", "quota"}

\* const providers = [provider, 'openai', 'huggingface', 'edge']  (line 153)
Providers(provider) == <<provider, "openai", "huggingface", "edge">>

\* (variant) the set `tried` is not consulted
AlreadyTried_never(tried, p) == FALSE

\* if (tried.has(p)) continue  (line 158)
AlreadyTried(tried, p) == p \in tried

\* if (!process.env.<KEY>) continue  (lines 164, 167)
Configured(keys, p) == p \notin Keyed \/ p \in keys

\* the loop from `for (const p of providers)` on, up to the next await of a
\* generateVoiceOver call or to the throw after the loop (lines 157-188)
RECURSIVE NextProvider(_)
NextProvider(t) ==
    IF t.i > Len(t.providers)
    THEN [t EXCEPT !.st = "failed", !.error = t.lastErr]
    ELSE LET p == t.providers[t.i]
         IN  IF AlreadyTried(t.tried, p)
             THEN NextProvider([t EXCEPT !.i = t.i + 1])
             ELSE IF ~Configured(t.keys, p)
             THEN NextProvider([t EXCEPT !.i = t.i + 1,
                                         !.tried = t.tried \cup {p}])
             ELSE [t EXCEPT !.st = "calling", !.i = t.i + 1,
                            !.tried = t.tried \cup {p}]

\* the loop reaches its first call for a job whose voice_over names
\* `provider`, in an environment that has the keys `keys`
TtsStart ==
    \E provider \in ProviderNames, keys \in SUBSET Keyed :
       /\ tts.st = "idle"
       /\ tts' = NextProvider([st |-> "idle", providers |-> Providers(provider),
                               keys |-> keys, i |-> 1, tried |-> {},
                               calls |-> <<>>, voResult |-> "none",
                               lastErr |-> "none", error |-> "none"])
       /\ UNCHANGED <<JobManagerVars, render, ffmpeg, template, rateLimiter,
                   download, delivery, queueLimit>>

\* the awaited generateVoiceOver resolves: voResult is set, break
\* (lines 165-179)
TtsSucceeds ==
    /\ tts.st = "calling"
    /\ LET p == tts.providers[tts.i - 1]
       IN  tts' = [tts EXCEPT !.st = "done", !.voResult = p,
                              !.calls = Append(@, [p |-> p, msg |-> "ok"])]
    /\ UNCHANGED <<JobManagerVars, render, ffmpeg, template, rateLimiter,
                   download, delivery, queueLimit>>

\* the awaited generateVoiceOver throws: lastErr = err, next iteration
\* (lines 180-183)
TtsFails ==
    \E msg \in Messages :
       /\ tts.st = "calling"
       /\ LET p == tts.providers[tts.i - 1]
          IN  tts' = NextProvider(
                        [tts EXCEPT !.lastErr = msg,
                                    !.calls = Append(@, [p |-> p, msg |-> msg])])
       /\ UNCHANGED <<JobManagerVars, render, ffmpeg, template, rateLimiter,
                   download, delivery, queueLimit>>

NextTts ==
    \/ TtsStart
    \/ TtsSucceeds
    \/ TtsFails

TtsSpec == Init /\ [][NextTts]_vars

\* ============================================================= runFFmpeg
\* One call of runFFmpeg (src/video-engine/src/utils/ffmpeg.js lines 24-70):
\* the child process, the kill timer and the promise.  Times are in seconds.
MaxElapsed == 1300

DefaultTimeout == 300

\* config.ffmpeg.timeout: unset (0), the default and the production value
\* (config/default.js lines 23, 53)
Timeouts == {0, 300, 1200}

\* how far the wall clock moves between two events
Steps == {100, 300}

\* codes a process reports at exit; -1 stands for null (ended by a signal),
\* -2 for the code of the close that follows a failed spawn
ExitCodes == {0, 1}

\* (config.ffmpeg.timeout || 300) * 1000  (line 39)
TimeoutMs(timeout) == (IF timeout = 0 THEN DefaultTimeout ELSE timeout) * 1000

\* resolve / reject: a promise settles once, later calls change nothing
Settle(p, outcome, err) ==
    IF p.promise = "pending"
    THEN [p EXCEPT !.promise = outcome, !.error = err]
    ELSE p

\* (variant) the signal is not delivered
Kill_ignored(p) == p

\* ffmpeg.kill('SIGKILL'): a running process ends with code null
Kill(p) == IF p.st = "running" THEN [p EXCEPT !.st = "exited", !.code = -1]
           ELSE p

\* clearTimeout(killTimer)
ClearTimeout(p) == IF p.timer = "armed" THEN [p EXCEPT !.timer = "cleared"]
                   ELSE p

\* runFFmpeg up to the return of the promise: spawn, setTimeout, handlers
\* (lines 25-42); a failed spawn is reported later by the 'error' event
RunFFmpeg ==
    \E timeout \in Timeouts, spawned \in BOOLEAN :
       /\ ffmpeg.st = "none"
       /\ ffmpeg' = [st |-> IF spawned THEN "running" ELSE "spawnfail",
                     timeoutMs |-> TimeoutMs(timeout), timer |-> "armed",
                     killed |-> FALSE, elapsed |-> 0,
                     code |-> IF spawned THEN -1 ELSE -2,
                     promise |-> "pending", error |-> "none"]
       /\ UNCHANGED <<JobManagerVars, render, tts, template, rateLimiter,
                   download, delivery, queueLimit>>

\* time passes, up to the moment an armed timer is due: the timer fires
\* before more time passes
Elapse ==
    \E step \in Steps :
       /\ ffmpeg.st \in {"running", "exited"}
       /\ ffmpeg.timer = "armed"
             => (ffmpeg.elapsed + step) * 1000 <= ffmpeg.timeoutMs
       /\ ffmpeg.elapsed + step <= MaxElapsed
       /\ ffmpeg' = [ffmpeg EXCEPT !.elapsed = @ + step]
       /\ UNCHANGED <<JobManagerVars, render, tts, template, rateLimiter,
                   download, delivery, queueLimit>>

\* the encoder ends by itself
ProcessExits ==
    \E code \in ExitCodes :
       /\ ffmpeg.st = "running"
       /\ ffmpeg' = [ffmpeg EXCEPT !.st = "exited", !.code = code]
       /\ UNCHANGED <<JobManagerVars, render, tts, template, rateLimiter,
                   download, delivery, queueLimit>>

\* the setTimeout callback: killed = true; ffmpeg.kill('SIGKILL')
\* (lines 40-43)
KillTimer ==
    /\ ffmpeg.timer = "armed"
    /\ ffmpeg.elapsed * 1000 >= ffmpeg.timeoutMs
    /\ ffmpeg' = Kill([ffmpeg EXCEPT !.killed = TRUE, !.timer = "fired"])
    /\ UNCHANGED <<JobManagerVars, render, tts, template, rateLimiter,
                   download, delivery, queueLimit>>

\* ffmpeg.on('close', code => ...)  (lines 53-64)
OnClose ==
    /\ ffmpeg.st \in {"exited", "errored"}
    /\ LET p == ClearTimeout([ffmpeg EXCEPT !.st = "closed"])
       IN  ffmpeg' = IF p.killed THEN Settle(p, "rejected", "timeout")
                     ELSE IF p.code = 0 THEN Settle(p, "resolved", "none")
                     ELSE Settle(p, "rejected", "exit")
    /\ UNCHANGED <<JobManagerVars, render, tts, template, rateLimiter,
                   download, delivery, queueLimit>>

\* ffmpeg.on('error', err => ...)  (lines 66-69)
OnError ==
    /\ ffmpeg.st = "spawnfail"
    /\ ffmpeg' = Settle(ClearTimeout([ffmpeg EXCEPT !.st = "errored"]),
                        "rejected", "spawn")
    /\ UNCHANGED <<JobManagerVars, render, tts, template, rateLimiter,
                   download, delivery, queueLimit>>

NextFFmpeg ==
    \/ RunFFmpeg
    \/ Elapse
    \/ ProcessExits
    \/ KillTimer
    \/ OnClose
    \/ OnError

\* Node delivers due timers and pending process events, and time passes;
\* whether the encoder ever ends by itself is left open
FFmpegSpec ==
    /\ Init /\ [][NextFFmpeg]_vars
    /\ WF_vars(Elapse) /\ WF_vars(KillTimer)
    /\ WF_vars(OnClose) /\ WF_vars(OnError)

\* ====================================================== effective template
\* Template loading of CompositionEngine.run (part_021 lines 56-69, 681-703,
\* 748-755).  A field's value is a literal or the text of one placeholder
\* token {{name}}.
Lit(x) == [kind |-> "lit", name |-> x]
Ph(k) == [kind |-> "ph", name |-> k]

\* the string-valued fields of a template the model follows
Fields == {"text_style", "color_grade"}

\* names that occur in placeholders and in template_variables
VarNames == {"style", "grade"}

\* what a template file or template_overrides can hold in a field
FieldValues == {Lit("basic"), Ph("style"), Ph("grade")}

\* what template_variables can hold for a name: a plain text, or a text that
\* reads like a placeholder
VarValues == {Lit("warm"), Ph("grade")}

Absent == [kind |-> "absent", name |-> ""]

\* composition.template_variables: absent, or an object that has a value
\* for some of the names
NoVariables == [given |-> FALSE, map |-> [k \in VarNames |-> Absent]]

VariableSets ==
    {NoVariables}
    \cup {[given |-> TRUE, map |-> m] :
             m \in [VarNames -> VarValues \cup {Absent}]}

\* template = {...template, ...composition.template_overrides}  (line 65)
Override(tpl, overrides) ==
    [f \in Fields |-> IF overrides[f] = Absent THEN tpl[f] ELSE overrides[f]]

\* the callback of jsonStr.replace(/\{\{(\w+)\}\}/g, ...): the variable's
\* value if there is one, else the token itself (lines 751-753)
Replace(v, variables) ==
    IF v.kind = "ph" /\ variables.map[v.name] # Absent
    THEN variables.map[v.name] ELSE v

\* applyTemplateVariables(template, variables)  (lines 748-755)
ApplyTemplateVariables(tpl, variables) ==
    [f \in Fields |-> Replace(tpl[f], variables)]

\* the effective template: loaded, overridden, then the variables applied
\* when the request has any (lines 57-69)
EffectiveTemplate(file, overrides, variables) ==
    IF ~variables.given THEN Override(file, overrides)
    ELSE ApplyTemplateVariables(Override(file, overrides), variables)

\* run() builds the effective template of one job
LoadTemplate ==
    \E file \in [Fields -> FieldValues],
       overrides \in [Fields -> FieldValues \cup {Absent}],
       variables \in VariableSets :
       /\ template.st = "none"
       /\ template' = [st |-> "ready", file |-> file, overrides |-> overrides,
                       variables |-> variables,
                       effective |-> EffectiveTemplate(file, overrides, variables)]
       /\ UNCHANGED <<JobManagerVars, render, tts, ffmpeg, rateLimiter,
                   download, delivery, queueLimit>>

TemplateSpec == Init /\ [][LoadTemplate]_vars

\* ================================================ what a job record shows
\* The kinds of content the fields of a job object hold: the request's
\* payload, the status, the error message of a failed job, and for a done
\* job the result, whose outputFile and thumbnailFile are
\* path.join(workDir, ...) with workDir = path.join(config.paths.temp, id)
\* (part_021 lines 42, 559, 591-596).  No code assigns job.stack.
JobContent(job) ==
    {"payload", "status"}
    \cup (IF job.error # "none" THEN {"message"} ELSE {})
    \cup (IF job.result THEN {"path"} ELSE {})

\* const safe = { ...job }; delete safe.stack
Sanitized(content) == content \ {"stack"}

\* getJob(id), returned as the body of GET /jobs/:id
\* (ffmpeg.js lines 287-296, part_023 lines 124-130)
GetJob(job) == Sanitized(JobContent(job))

\* JSON.stringify(safeCopy) of sendWebhookWithRetry (lines 499-510)
WebhookBody(job) == Sanitized(JobContent(job))

\* =========================================================== RateLimiter
\* The bot's sliding-window limiter (src/bot-engine/server.js lines 34-47)
\* and its two call sites, for one chat.  Times are Date.now() values in ms.
MaxAdvances == 2
MaxMessages == 21
MaxSubmissions == 4

MessageLimit == 20
MessageWindowMs == 60000
JobLimit == 3
JobWindowMs == 3600000

\* the keys `msg:<chatId>` and `job:<chatId>` of the chat
Keys == {"msg", "job"}

Limit(key) == IF key = "msg" THEN MessageLimit ELSE JobLimit
WindowMs(key) == IF key = "msg" THEN MessageWindowMs ELSE JobWindowMs

\* how far Date.now() moves between two calls
ClockSteps == {30000, 1800000}

\* stamps.filter(t => now - t < windowMs), `date` being the call's Date.now()
\* (lines 38, 40)
Fresh(stamps, date, windowMs) ==
    SelectSeq(stamps, LAMBDA t : date - t < windowMs)

\* (variant) one call more gets through
Full_late(stamps, limit) == Len(stamps) > limit

\* if (stamps.length >= limit) return false  (line 42)
Full(stamps, limit) == Len(stamps) >= limit

\* check(key, limit, windowMs): the stamps kept for the key afterwards and
\* the value returned (lines 37-45)
Check(windows, key, date, limit, windowMs) ==
    LET stamps == Fresh(windows[key], date, windowMs)
    IN  IF Full(stamps, limit)
        THEN [windows |-> [windows EXCEPT ![key] = stamps], ok |-> FALSE]
        ELSE [windows |-> [windows EXCEPT ![key] = Append(stamps, date)],
              ok |-> TRUE]

\* one call of rateLimiter.check from a call site, with the history of the
\* calls accepted and the count of those rejected
Call(key, max) ==
    /\ rateLimiter.calls[key] < max
    /\ LET c == Check(rateLimiter.windows, key, rateLimiter.now,
                      Limit(key), WindowMs(key))
       IN  rateLimiter' =
              [rateLimiter EXCEPT
                 !.windows = c.windows,
                 !.calls[key] = @ + 1,
                 !.accepted[key] = IF c.ok THEN Append(@, rateLimiter.now)
                                   ELSE @,
                 !.rejected[key] = IF c.ok THEN @
                                   ELSE Append(@, rateLimiter.now)]
    /\ UNCHANGED <<JobManagerVars, render, tts, ffmpeg, template,
                   download, delivery, queueLimit>>

\* onMessage: rateLimiter.check(`msg:${chatId}`, 20, 60000)  (line 359)
OnMessage == Call("msg", MaxMessages)

\* executeVideoGeneration: rateLimiter.check(`job:${chatId}`, 3, 3600000)
\* (line 647)
ExecuteVideoGeneration == Call("job", MaxSubmissions)

\* time passes between two calls
ClockAdvance ==
    \E step \in ClockSteps :
       /\ rateLimiter.advances < MaxAdvances
       /\ rateLimiter' = [rateLimiter EXCEPT !.now = @ + step,
                                             !.advances = @ + 1]
       /\ UNCHANGED <<JobManagerVars, render, tts, ffmpeg, template,
                   download, delivery, queueLimit>>

NextLimiter ==
    \/ OnMessage
    \/ ExecuteVideoGeneration
    \/ ClockAdvance

LimiterSpec == Init /\ [][NextLimiter]_vars

\* ===================================================== downloadFile
\* downloadFile and downloadWithCurl (ffmpeg.js lines 106-198).  A body is
\* what a server sends with status 200: whether it is shorter than 200
\* bytes, and which of the strings the code looks for it contains.
maxRetries == 3
RetryBaseMs == 1000

Body(tiny, marks) == [tiny |-> tiny, marks |-> marks]

Bodies ==
    {Body(FALSE, {}),                                   \* a media file
     Body(TRUE, {}),                                    \* a tiny file
     Body(TRUE, {"<?xml", "<Error>", "AccessDenied"}),  \* S3 error document
     Body(TRUE, {"<?xml"}),                             \* other XML error
     Body(TRUE, {"<html"})}                             \* HTML error page

\* what one request meets: no connection, a status outside 2xx, or a body
Responses ==
    {[kind |-> "network"], [kind |-> "http_error"]}
       \cup {[kind |-> "ok", body |-> b] : b \in Bodies}

\* one request made: by fetch or by curl, and what it met
Request(tool, r) == [tool |-> tool, met |-> r.kind]

\* the check of the fetch path (lines 167-172)
FetchRejects(body) ==
    body.tiny /\ body.marks \cap {"<?xml", "<Error>", "<html"} # {}

\* the check of the curl path (lines 181-187)
CurlRejects(body) ==
    body.tiny /\ body.marks \cap {"<Error>", "AccessDenied"} # {}

\* (variant) every wait lasts one second
RetryDelay_flat(attempt) == RetryBaseMs

\* setTimeout(r, 1000 * attempt)  (line 194)
RetryDelay(attempt) == RetryBaseMs * attempt

\* downloadFile(url, destPath) up to the first fetch (lines 135-145)
DownloadFile ==
    /\ download = NoDownload
    /\ \E scheme \in {"http", "https", "ftp"} :
          download' =
             IF scheme \in {"http", "https"}
             THEN [NoDownload EXCEPT !.st = "fetching", !.attempt = 1]
             ELSE [NoDownload EXCEPT !.st = "thrown", !.error = "scheme"]
    /\ UNCHANGED <<JobManagerVars, render, tts, ffmpeg, template, rateLimiter,
                   delivery, queueLimit>>

\* the fetch of this attempt settles (lines 147-174): a body that passes the
\* check is written to destPath and returned, anything else goes to curl
FetchSettles ==
    /\ download.st = "fetching"
    /\ \E r \in Responses :
          download' =
             IF r.kind = "ok" /\ ~FetchRejects(r.body)
             THEN [download EXCEPT !.calls = Append(@, Request("fetch", r)),
                                   !.stored = r.body, !.st = "returned"]
             ELSE [download EXCEPT !.calls = Append(@, Request("fetch", r)),
                                   !.st = "curl"]
    /\ UNCHANGED <<JobManagerVars, render, tts, ffmpeg, template, rateLimiter,
                   delivery, queueLimit>>

\* the curl fallback exits (lines 106-133, 175-189): with -f a status
\* outside 2xx is a failure; a body is written to destPath by curl itself
CurlExits ==
    /\ download.st = "curl"
    /\ \E r \in Responses :
          download' =
             IF r.kind # "ok"
             THEN [download EXCEPT !.calls = Append(@, Request("curl", r)),
                                   !.st = "waiting", !.error = "curl"]
             ELSE IF CurlRejects(r.body)
             THEN [download EXCEPT !.calls = Append(@, Request("curl", r)),
                                   !.stored = r.body,
                                   !.st = "waiting", !.error = "error response"]
             ELSE [download EXCEPT !.calls = Append(@, Request("curl", r)),
                                   !.stored = r.body, !.st = "returned"]
    /\ UNCHANGED <<JobManagerVars, render, tts, ffmpeg, template, rateLimiter,
                   delivery, queueLimit>>

\* the wait after a failed attempt ends (lines 191-197): the loop goes on
\* or, after the last attempt, downloadFile throws
RetryTimer ==
    /\ download.st = "waiting"
    /\ download' =
          [download EXCEPT
              !.waits = Append(@, RetryDelay(download.attempt)),
              !.attempt = IF download.attempt < maxRetries THEN @ + 1 ELSE @,
              !.st = IF download.attempt < maxRetries THEN "fetching"
                     ELSE "thrown"]
    /\ UNCHANGED <<JobManagerVars, render, tts, ffmpeg, template, rateLimiter,
                   delivery, queueLimit>>

NextDownload == DownloadFile \/ FetchSettles \/ CurlExits \/ RetryTimer

DownloadSpec == Init /\ [][NextDownload]_vars

\* ===================================================== result delivery
\* The bot's deliverJobResult and its deliveredJobs set.  The repository
\* holds the bot twice: bot-engine/server.js (lines 103-111, 196-215) and
\* part_012 (lines 104-113, 198-255); the one that runs is fixed when the
\* bot starts.  Two callers deliver a job: the handler of the engine's
\* webhook callback and the status poll (pollJobProgress), each once.
Versions == {"server.js", "part_012"}
Callers == {"webhook", "poll"}

\* the bot process starts
BotStart ==
    /\ delivery.version = "none"
    /\ \E v \in Versions : delivery' = [delivery EXCEPT !.version = v]
    /\ UNCHANGED <<JobManagerVars, render, tts, ffmpeg, template, rateLimiter,
                   download, queueLimit>>

\* the engine's job reaches the status both callers will see
JobEnds ==
    /\ delivery.version # "none"
    /\ \E j \in Ids, s \in Terminal :
          /\ delivery.status[j] = "none"
          /\ delivery' = [delivery EXCEPT !.status[j] = s]
    /\ UNCHANGED <<JobManagerVars, render, tts, ffmpeg, template, rateLimiter,
                   download, queueLimit>>

\* isAlreadyDelivered(jobId) at the head of deliverJobResult: server.js
\* tests and adds in one call for every status, part_012 only tests, and
\* only for done and failed
Skips(d, j) ==
    IF d.version = "server.js" THEN j \in d.deliveredJobs
    ELSE d.status[j] \in {"done", "failed"} /\ j \in d.deliveredJobs

\* deliveredJobs after the head of deliverJobResult
MarkedAtHead(d, j) ==
    IF d.version = "server.js" THEN d.deliveredJobs \cup {j}
    ELSE d.deliveredJobs

\* markAsDelivered(jobId) after a send that Telegram accepted (part_012
\* lines 229, 247, 251); server.js has no such call
MarkedAfterSend(d, j) ==
    IF d.version = "part_012" THEN d.deliveredJobs \cup {j}
    ELSE d.deliveredJobs

\* deliverJobResult(chatId, jobId, ...) up to its first await
DeliverJobResult ==
    \E c \in Callers, j \in Ids :
       /\ delivery.status[j] # "none"
       /\ delivery.pc[c][j] = "idle"
       /\ delivery' =
             IF Skips(delivery, j)
             THEN [delivery EXCEPT !.pc[c][j] = "returned"]
             ELSE [delivery EXCEPT
                      !.deliveredJobs = MarkedAtHead(delivery, j),
                      !.pc[c][j] =
                          IF delivery.status[j] = "done" THEN "sendVideo"
                          ELSE IF delivery.status[j] = "failed"
                          THEN "sendText"
                          ELSE "returned"]
       /\ UNCHANGED <<JobManagerVars, render, tts, ffmpeg, template,
                      rateLimiter, download, queueLimit>>

\* the Telegram call in flight answers: an accepted message reaches the
\* chat; a refused sendVideo falls back to the link message
TelegramAnswers ==
    \E c \in Callers, j \in Ids, ok \in BOOLEAN :
       /\ delivery.pc[c][j] \in {"sendVideo", "sendLink", "sendText"}
       /\ delivery' =
             IF ok
             THEN [delivery EXCEPT
                      !.sent[j] = @ + 1,
                      !.deliveredJobs = MarkedAfterSend(delivery, j),
                      !.pc[c][j] = "returned"]
             ELSE [delivery EXCEPT
                      !.pc[c][j] = IF @ = "sendVideo" THEN "sendLink"
                                   ELSE "returned"]
       /\ UNCHANGED <<JobManagerVars, render, tts, ffmpeg, template,
                      rateLimiter, download, queueLimit>>

NextDelivery == BotStart \/ JobEnds \/ DeliverJobResult \/ TelegramAnswers

DeliverySpec == Init /\ [][NextDelivery]_vars

\* =================================================================== claims

\* C1: once a job's status is done, failed or cancelled it never changes
\* again, across every step including restart recovery.
\* (Within a lifetime the status is the one held in memory; across a restart
\* it is the persisted one.  A deleted job has no status.)
C1_TerminalNeverChanges ==
    [][\A j \in Ids :
          /\ epoch' = epoch /\ jobs[j].status \in {"done", "failed", "cancelled"}
                /\ jobs'[j].status # "absent"
             => jobs'[j].status = jobs[j].status
          /\ epoch' # epoch /\ disk[j].status \in {"done", "failed", "cancelled"}
             => jobs'[j].status = disk[j].status]_vars

\* the edges of the documented state diagram
ListedEdges ==
    {<<"queued", "preparing">>, <<"preparing", "processing">>,
     <<"processing", "done">>, <<"processing", "failed">>,
     <<"queued", "cancelled">>, <<"processing", "cancelled">>}

\* every status change out of queued, preparing or processing, within one
\* process lifetime, is one of the edges E
EdgesWithin(E) ==
    epoch' = epoch =>
       \A j \in Ids :
          /\ jobs[j].status \in {"queued", "preparing", "processing"}
          /\ jobs'[j].status # jobs[j].status
          => <<jobs[j].status, jobs'[j].status>> \in E

C3_RunningWithinLimit == Cardinality(running) <= 1

\* processQueue dequeued job j in this step
Picked(j) ==
    \E w \in writes' :
       /\ w.id = j
       /\ w.kind = "preparing"
       /\ (w \notin writes \/ epoch' # epoch)

\* C4: whenever processQueue picks a job, no job submitted before it (ids are
\* handed out in submission order) is still queued.
C4_FifoDequeue ==
    [][\A j \in Ids : Picked(j) =>
          \A k \in Ids : k < j => jobs'[k].status # "queued"]_vars

C6_PersistBeforeEffects ==
    [][\A e \in effects' \ effects :
          /\ disk'[e.id].status = e.status
          /\ [id |-> e.id, status |-> e.status, n |-> e.n] \notin lost']_vars

\* a terminal write failed and sent nothing, another was written and did
C6_Witness ==
    /\ \E o \in lost : o.status \in {"done", "failed"} /\ jobs[o.id].webhook
    /\ \E e \in effects : e.what = "webhook"
    /\ \E e \in effects : e.what = "cleanup"

\* C7: every job accepted by createJob eventually reaches a terminal status,
\* when every engine run returns and the scheduler steps are fair.
C7_EventuallyTerminal ==
    \A j \in Ids :
       (jobs[j].status = "queued")
          ~> (jobs[j].status \in {"done", "failed", "cancelled"})

\* every job was submitted and all work has drained, one ended done after
\* waiting behind another
C7_Witness ==
    /\ nextId > MaxJobs
    /\ writes = {}
    /\ running = {}
    /\ jobs[MaxJobs].status = "done"

\* C8: for a job with a webhook_url, every arrival at a terminal status
\* (done, failed, failed by restart recovery, cancelled) triggers a webhook.
C8_WebhookOnEveryTerminal ==
    /\ \A o \in persisted :
          jobs[o.id].webhook
          => [id |-> o.id, status |-> o.status, n |-> o.n, what |-> "webhook"]
                \in effects
    /\ \A j \in Ids :
          jobs[j].webhook /\ jobs[j].status = "failed" /\ jobs[j].error = "restart"
          => hooks[j].st # "none"

\* C9: one sendWebhookWithRetry call makes at most 3 attempts, none after a
\* success or after the third failure, and waits 2000 ms then 4000 ms
\* between them.
C9_WebhookRetry ==
    [][\A j \in Ids :
          /\ hooks'[j].attempt <= 3
          /\ hooks'[j].waits \in {<<>>, <<2000>>, <<2000, 4000>>}
          /\ Len(hooks'[j].waits) =
                IF hooks'[j].st = "waiting" THEN hooks'[j].attempt
                ELSE IF hooks'[j].st = "none" THEN 0
                ELSE hooks'[j].attempt - 1
          /\ hooks'[j].st = "exhausted" => hooks'[j].attempt = 3
          /\ hooks[j].st \in {"delivered", "exhausted"} /\ epoch' = epoch
             => hooks'[j] = hooks[j]]_vars

\* three attempts failed for one job and a retry succeeded for another
C9_Witness ==
    /\ \E j \in Ids : hooks[j].st = "exhausted" /\ hooks[j].waits = <<2000, 4000>>
    /\ \E j \in Ids : hooks[j].st = "delivered" /\ hooks[j].attempt = 2

\* C10: no step of webhook delivery changes a job record, a persisted
\* record, the active-job counter or the queue, and the next job is dequeued
\* in the very step that starts the delivery.
C10_WebhookDecoupled ==
    [][/\ (\E j \in Ids : /\ hooks[j].st \in {"posting", "waiting"}
                          /\ hooks'[j] # hooks[j]
                          /\ epoch' = epoch)
          => UNCHANGED <<jobs, disk, activeJobs, order, writes, running>>
       /\ \A j \in Ids :
             hooks[j].st = "none" /\ hooks'[j].st = "posting"
             => ~ (/\ activeJobs' < 1
                   /\ \E k \in Ids : jobs'[k].status = "queued")]_vars

\* a delivery ran out of retries while the next job had been dequeued
C10_Witness ==
    \E j, k \in Ids :
       /\ hooks[j].st = "exhausted"
       /\ jobs[j].status \in {"done", "failed"}
       /\ jobs[k].status \in {"preparing", "processing"}

\* C11: after cancelJob has set a job to cancelled, within that process
\* lifetime no result or error is recorded on the job, its status is not
\* changed (no further status event) and no webhook delivery is started for
\* it, even when its engine run completes or fails later.
C11_NothingAfterCancel ==
    [][\A j \in Ids :
          (\E c \in cancelled : c.id = j) /\ epoch' = epoch
          => /\ jobs'[j].result = jobs[j].result
             /\ jobs'[j].error = jobs[j].error
             /\ jobs'[j].status = jobs[j].status
             /\ ~ (hooks[j].st = "none" /\ hooks'[j].st = "posting")]_vars

\* C12: a job cancelled while queued is never picked by processQueue, never
\* preparing or processing, its engine is never invoked or running, it takes
\* no slot, and when its cancellation completes the next queued job is
\* dequeued if a slot is free.
C12_CancelledQueuedNeverRuns ==
    [][/\ \A j \in Ids :
             (\E c \in cancelled' : c.id = j /\ c.prev = "queued")
             => /\ ~ Picked(j)
                /\ jobs'[j].status \notin {"preparing", "processing"}
                /\ j \notin running'
                /\ invoked'[j] = invoked[j]
                /\ \A w \in writes' : w.id = j /\ w.kind = "cancelled"
                                          => w.prev \notin {"preparing", "processing"}
       /\ \A o \in persisted' \ persisted :
             o.status = "cancelled" /\ epoch' = epoch
             => ~ (/\ activeJobs' < 1
                   /\ \E k \in Ids : jobs'[k].status = "queued")]_vars

\* a job was cancelled while queued and the job submitted after it runs
C12_Witness ==
    \E c \in cancelled : \E k \in Ids :
       /\ c.prev = "queued"
       /\ jobs[c.id].status = "cancelled"
       /\ invoked[c.id] = 0
       /\ [id |-> c.id, status |-> "cancelled", n |-> 1] \in persisted
       /\ c.id < k
       /\ k \in running

\* C13: executeJob is invoked at most once for each job id, over all process
\* lifetimes.
C13_EngineStartedOnce == \A j \in Ids : invoked[j] <= 1

\* C14: an assembly job is admitted against the assembly limit counting only
\* active assembly jobs: when every pending write has completed, no assembly
\* job is left queued while fewer than assemblyConcurrency assembly jobs are
\* active.
C14_AssemblySlotUsed ==
    \A j \in Ids :
       jobs[j].mode = "assembly" /\ jobs[j].status = "queued" /\ writes = {}
       => Cardinality({k \in Ids : /\ jobs[k].mode = "assembly"
                                   /\ jobs[k].status \in {"preparing", "processing"}})
             >= assemblyConcurrency

\* C15: the clip descriptors of job.payload, in memory and in every persisted
\* record, are the submitted ones: none carries a url put there by the
\* engine.
C15_PayloadNeverMutated ==
    \A j \in Ids :
       /\ jobs[j].clip \in {"none", "url", "query"}
       /\ disk[j].clip \in {"none", "url", "query"}

C17_WorkdirGoneAfterCancel ==
    \A e \in effects :
       /\ e.what = "cleanup"
       /\ \E c \in cancelled : c.id = e.id /\ c.prev \in {"preparing", "processing"}
       => e.id \notin workdir

\* C18: a subscriber whose job has reached a terminal status, with nothing
\* of the job still in flight, has received its terminal event and its
\* stream is closed.
C18_SubscriberGetsTerminalEvent ==
    \A j \in Ids :
       /\ streams[j].st = "open"
       /\ jobs[j].status \in {"done", "failed", "cancelled"}
       /\ j \notin running
       => \E w \in writes : w.id = j

\* C19: a composition submission whose clips array has 0 or more than 20
\* entries gets an error response, and nothing of the job store or the queue
\* changes in that request.
C19_ClipCountRejected ==
    [][/\ (req' # req \/ nextId' # nextId)
       /\ req'.payload.mode = "composition"
       /\ req'.payload.comp
       /\ req'.payload.clips = "array"
       /\ (req'.payload.nclips = 0 \/ req'.payload.nclips > 20)
       => /\ req'.code = 400
          /\ UNCHANGED <<jobs, order, disk, writes, nextId, activeJobs>>]_vars

\* 25 clips were refused after a job had been accepted, and only that job
\* is there
C19_Witness ==
    /\ req.payload.nclips = 25
    /\ req.code = 400
    /\ jobs[1].status # "absent"
    /\ nextId = 2
    /\ disk[1].status # "absent"

\* a url that starts like an http url and does not parse
MalformedUrl(u) == u.given /\ u.http /\ ~ u.parses

\* C20: no job is created for a submission with a malformed clip or input
\* url, a clip speed outside 0.25-4.0, narration text over 5000 characters,
\* an unknown output_format or quality, or a clip transition whose type is
\* not a supported one.
C20_InvalidNeverQueued ==
    [][nextId' # nextId
       => LET p == req'.payload
          IN  /\ ~ (p.clips = "array" /\ MalformedUrl(p.clipUrl))
              /\ ~ MalformedUrl(p.input)
              /\ ~ (p.clips = "array" /\ p.speed.type = "number"
                      /\ (p.speed.x100 < 25 \/ p.speed.x100 > 400))
              /\ p.voText <= 5000
              /\ p.output_format \in {"none"} \cup validFormats
              /\ p.quality \in {"none", "draft", "full"}
              /\ p.transition \in {"none"} \cup XFADE_TYPES]_vars

\* C21 (as stated): for n >= 2 clips in which each clip after the first
\* carries a transition of duration d_i, buildTransitionChain returns
\* sum(e) - sum(d); when no clip after the first has a transition it returns
\* sum(e).
C21_ChainDuration ==
    LET pc == render.processedClips
        n == Len(pc)
        e == [i \in 1..n |-> pc[i].effectiveDuration]
        d == [i \in 1..n |-> IF i = 1 THEN 0 ELSE pc[i].transition.duration]
    IN  n >= 2 =>
          /\ (\A i \in 2..n : pc[i].transition.given)
                => render.totalVideoDuration = Sum(e) - Sum(d)
          /\ (\A i \in 2..n : ~pc[i].transition.given)
                => render.totalVideoDuration = Sum(e)

\* C21 (amended): the same, for transitions that have a type and a duration
\* d_i that is positive and no longer than the effective duration of the clip
\* before it.
C21_ChainDurationWithinClips ==
    LET pc == render.processedClips
        n == Len(pc)
        e == [i \in 1..n |-> pc[i].effectiveDuration]
        d == [i \in 1..n |-> IF i = 1 THEN 0 ELSE pc[i].transition.duration]
    IN  n >= 2 =>
          /\ (\A i \in 2..n : /\ pc[i].transition.given
                              /\ pc[i].transition.type # "none"
                              /\ pc[i].transition.duration > 0
                              /\ pc[i].transition.duration
                                    <= pc[i - 1].effectiveDuration)
                => render.totalVideoDuration = Sum(e) - Sum(d)
          /\ (\A i \in 2..n : ~pc[i].transition.given)
                => render.totalVideoDuration = Sum(e)

\* three clips joined by two fades, each shorter than the clip before it
C21_Witness ==
    LET pc == render.processedClips
    IN  /\ Len(pc) = 3
        /\ \A i \in 2..3 : /\ pc[i].transition.type = "fade"
                           /\ pc[i].transition.duration > 0
                           /\ pc[i].transition.duration
                                 <= pc[i - 1].effectiveDuration
        /\ pc[2].transition.duration # pc[3].transition.duration
        /\ render.totalVideoDuration < pc[1].effectiveDuration
                + pc[2].effectiveDuration + pc[3].effectiveDuration

\* C22: two 5-second video clips, one fade of 0.5 s between them and no
\* narration: the output length handed to the encoder is 9.5 s.
C22_TwoClipsOneFade ==
    /\ render.clips = <<Clip(5000, 0, NoTransition, "video", "mp4", FALSE),
                        Clip(5000, 0, Transition("fade", 500),
                             "video", "mp4", FALSE)>>
    /\ render.vo = 0
    => render.t = 9500

Round(num, den) == (2 * num + den) \div (2 * den)

\* C24: every image clip (type image, or an image file extension) of duration
\* t at frame rate f gets a pan/zoom filter whose frame count is round(t*f).
C24_KenBurnsFrames ==
    \A i \in 1..Len(render.clips) :
       LET clip == render.clips[i]
           ms == IF clip.duration = 0 THEN 5000 ELSE clip.duration
       IN  (clip.type = "image" \/ clip.ext \in ImageExtensions)
              => /\ render.filters[i].zoompan
                 /\ render.filters[i].frames
                       = 1000 * Round(ms * render.template.fps, 1000)

\* position of the first occurrence of provider p in the list
FirstIndex(list, p) == CHOOSE i \in 1..Len(list) :
                          list[i] = p /\ \A k \in 1..(i - 1) : list[k] # p

\* the calls made so far follow the list order and no provider is called twice
CallsInOrder ==
    \A a, b \in 1..Len(tts.calls) :
       a < b => FirstIndex(tts.providers, tts.calls[a].p)
                   < FirstIndex(tts.providers, tts.calls[b].p)

\* a call that succeeded is the last call made
StopsAtFirstSuccess ==
    /\ \A a \in 1..Len(tts.calls) :
          tts.calls[a].msg = "ok" => a = Len(tts.calls) /\ tts.st = "done"
    /\ tts.st = "done" => tts.calls[Len(tts.calls)].msg = "ok"

\* the raised error carries the message of the last provider that failed
CarriesLastMessage ==
    tts.st = "failed" =>
       /\ Len(tts.calls) > 0
       /\ tts.error = tts.calls[Len(tts.calls)].msg

\* C25 (as stated): providers are tried in list order, each at most once; the
\* chain stops at the first success; synthesis fails only after every
\* provider in the list has failed, with the last failure's message.
C25_FallbackChain ==
    /\ CallsInOrder
    /\ StopsAtFirstSuccess
    /\ CarriesLastMessage
    /\ tts.st = "failed" =>
          \A k \in 1..Len(tts.providers) :
             \E a \in 1..Len(tts.calls) :
                tts.calls[a].p = tts.providers[k] /\ tts.calls[a].msg # "ok"

\* C25 (amended): the same, where the providers that must have failed are
\* those of the list whose API key is configured (openai and huggingface are
\* skipped without a call when their key is missing).
C25_FallbackChainOfConfigured ==
    /\ CallsInOrder
    /\ StopsAtFirstSuccess
    /\ CarriesLastMessage
    /\ \A a \in 1..Len(tts.calls) :
          tts.calls[a].p \in Keyed => tts.calls[a].p \in tts.keys
    /\ tts.st = "failed" =>
          \A k \in 1..Len(tts.providers) :
             (tts.providers[k] \in Keyed => tts.providers[k] \in tts.keys)
                => \E a \in 1..Len(tts.calls) :
                      /\ tts.calls[a].p = tts.providers[k]
                      /\ tts.calls[a].msg # "ok"

\* the requested provider is also a default of the list, every provider is
\* configured, all of them failed and the error is the last one's
C25_Witness ==
    /\ tts.st = "failed"
    /\ tts.providers[1] = "edge"
    /\ tts.keys = Keyed
    /\ Len(tts.calls) = 3
    /\ tts.calls[2].msg # tts.calls[3].msg
    /\ tts.error = tts.calls[3].msg

\* C26: when the engine's run throws, the job is set to failed with
\* job.error equal to the thrown message and without a result; a job that
\* carries the engine's error is never done and has no result (only a later
\* cancelJob changes its status, to cancelled); and when the failed status
\* has been written, the slot the job held is given back (a queued job may
\* take it in the same step).
C26_EngineErrorFailsJob ==
    /\ [][\A j \in Ids :
             (/\ j \in running /\ j \notin running'
              /\ \E w \in writes' \ writes : w.id = j /\ w.kind = "failed")
             => /\ jobs'[j].status = "failed"
                /\ jobs'[j].error = "engine"
                /\ ~jobs'[j].result]_vars
    /\ [](\A j \in Ids :
             jobs[j].error = "engine"
                => /\ jobs[j].status \in {"failed", "cancelled"}
                   /\ ~jobs[j].result)
    /\ [][\A w \in writes \ writes' :
             (/\ epoch' = epoch /\ w.kind = "failed"
              /\ disk'[w.id] = w.snap /\ w.prev \in {"preparing", "processing"})
             => \/ activeJobs = 0
                \/ activeJobs' = activeJobs - 1
                \/ /\ activeJobs' = activeJobs
                   /\ \E v \in writes' \ writes : v.kind = "preparing"]_vars

\* the first job's engine threw, its failed status is written and the slot
\* went to the second job
C26_Witness ==
    /\ jobs[1].status = "failed"
    /\ jobs[1].error = "engine"
    /\ \E o \in persisted : o.id = 1 /\ o.status = "failed"
    /\ jobs[2].status = "processing"
    /\ activeJobs = 1
    /\ epoch = 0

\* C27: an encoder never runs past the configured timeout (the timer kills
\* it); once the timer has fired the promise can only reject with the
\* timeout error, whatever exit code the close reports; and after every call
\* (exit 0, other exit code, failed spawn, timeout) the promise settles.
C27_EncoderTimeout ==
    /\ [](ffmpeg.st = "running" => ffmpeg.elapsed * 1000 <= ffmpeg.timeoutMs)
    /\ [](ffmpeg.st # "none" /\ ffmpeg.killed
             => \/ ffmpeg.promise = "pending"
                \/ ffmpeg.promise = "rejected" /\ ffmpeg.error = "timeout")
    /\ [](ffmpeg.st = "closed" /\ ~ffmpeg.killed =>
             /\ ffmpeg.code = 0
                  => ffmpeg.promise = "resolved"
             /\ ffmpeg.code = 1
                  => ffmpeg.promise = "rejected" /\ ffmpeg.error = "exit"
             /\ ffmpeg.code = -2
                  => ffmpeg.promise = "rejected" /\ ffmpeg.error = "spawn")
    /\ (ffmpeg.st # "none") ~> (ffmpeg.promise # "pending")

\* the default timeout applied, the encoder was still running after 300 s,
\* was killed and the promise rejected with the timeout error
C27_Witness ==
    /\ ffmpeg.st = "closed"
    /\ ffmpeg.timeoutMs = 300000
    /\ ffmpeg.elapsed = 300
    /\ ffmpeg.killed
    /\ ffmpeg.code = -1
    /\ ffmpeg.promise = "rejected"
    /\ ffmpeg.error = "timeout"

\* C28: once the template is loaded, overridden and the variables applied,
\* no field of the effective template holds a {{placeholder}} token, for
\* every template, overrides and variables.
C28_NoPlaceholderLeft ==
    template.st = "ready" =>
       \A f \in Fields : template.effective[f].kind # "ph"

\* C29: the record returned for a job status request and the body posted to
\* the webhook hold no stack trace, no internal filesystem path and no
\* credential, in every job state.
C29_NoInternalsExposed ==
    /\ [](\A j \in Ids :
             jobs[j].status # "absent"
                => GetJob(jobs[j]) \cap {"stack", "path", "credential"} = {})
    /\ [][\A j \in Ids :
             hooks[j].st = "none" /\ hooks'[j].st = "posting"
                => WebhookBody(jobs[j])
                      \cap {"stack", "path", "credential"} = {}]_vars

\* number of stamps of the sequence that lie in the window [from, from + w)
InWindow(stamps, from, w) ==
    Cardinality({i \in 1..Len(stamps) : from <= stamps[i] /\ stamps[i] < from + w})

\* C30: for each key, at most `limit` accepted calls lie inside any window of
\* windowMs (it is enough to look at the windows that start at an accepted
\* call); and a rejected call consumes no quota: whenever a call is rejected,
\* `limit` accepted calls lie within the windowMs before it.
C30_SlidingWindowLimit ==
    \A key \in Keys :
       /\ \A i \in 1..Len(rateLimiter.accepted[key]) :
             InWindow(rateLimiter.accepted[key],
                      rateLimiter.accepted[key][i], WindowMs(key)) <= Limit(key)
       /\ \A i \in 1..Len(rateLimiter.rejected[key]) :
             InWindow(rateLimiter.accepted[key],
                      rateLimiter.rejected[key][i] - WindowMs(key) + 1,
                      WindowMs(key)) >= Limit(key)

\* both limits were reached, a call of each kind was rejected, and a job
\* submission was accepted again an hour after the first three
C30_Witness ==
    /\ Len(rateLimiter.accepted["msg"]) = MessageLimit
    /\ Len(rateLimiter.rejected["msg"]) = 1
    /\ rateLimiter.accepted["job"] = <<0, 0, 0, JobWindowMs>>

\* C34: in every combination of narration, music and ducking the audio graph
\* holds a silent track trimmed to at least the target duration that feeds
\* the final audio output, directly or through the mixer, and when narration
\* or music is present the mixer's declared input count is the number of
\* streams fed to it, the silent track among them.
C34_SilentTrackAndMixCount ==
    render # NoRender =>
       LET fs == render.audio.filters
           Named(n) == {i \in 1..Len(fs) : fs[i].filter = n}
       IN  /\ Cardinality(Named("anullsrc")) = 1
           /\ \A i \in Named("anullsrc") :
                 /\ fs[i].outputs = <<"asil">>
                 /\ fs[i].arg * 1000 >= render.finalDuration
           /\ IF render.voFile \/ render.musicFile
              THEN /\ Cardinality(Named("amix")) = 1
                   /\ \A i \in Named("amix") :
                         /\ fs[i].arg = Len(fs[i].inputs)
                         /\ fs[i].inputs[Len(fs[i].inputs)] = "asil"
                         /\ fs[i].outputs = <<render.audio.lastAudioStream>>
                         /\ \A k \in 1..Len(fs[i].inputs) :
                               \/ fs[i].inputs[k] = "vo"
                               \/ \E j \in 1..(i - 1) :
                                     \E m \in 1..Len(fs[j].outputs) :
                                        fs[j].outputs[m] = fs[i].inputs[k]
              ELSE /\ Named("amix") = {}
                   /\ render.audio.lastAudioStream = "asil"

\* narration and music with ducking: the mixer takes the ducked music, the
\* narration and the silent track
C34_Witness ==
    /\ render # NoRender
    /\ render.voFile /\ render.musicFile /\ render.isDucking
    /\ \E i \in 1..Len(render.audio.filters) :
          /\ render.audio.filters[i].filter = "amix"
          /\ render.audio.filters[i].inputs = <<"mduck", "vo_main", "asil">>
    /\ render.finalDuration % 1000 # 0

\* C40: the total duration computed for the progress bar overlay equals the
\* duration of the video timeline computed by the single-clip case or by
\* buildTransitionChain, for every clip list.
C40_ProgressBarMatchesTimeline ==
    render # NoRender => render.progressDuration = render.totalVideoDuration

\* the instant an ASS timestamp h:mm:ss.cc names, in milliseconds
C33_Instant(ts) == ts.h * 3600000 + ts.m * 60000 + ts.s * 1000 + ts.cc * 10

\* the timestamp is the instant t at the file's resolution of 10 ms
C33_Stamps(ts, t) == C33_Instant(ts) <= t /\ t < C33_Instant(ts) + 10

\* C33: the word timings are split in order into lines of at most
\* wordsPerLine words; there is exactly one caption event per word; each
\* event runs from its word's start to the start of the next word of the
\* same line, or to the word's own end when it is the last of its line.
C33_OneEventPerWord ==
    render.subtitles.events # <<>> =>
       LET w == render.subtitles.wordTimings
           ev == render.subtitles.events
           n == IF render.subtitles.wordsPerLine = 0 THEN 4
                ELSE render.subtitles.wordsPerLine
       IN  /\ Len(ev) = Len(w)
           /\ \A k \in 1..Len(w) :
                 LET last == k % n = 0 \/ k = Len(w)
                     lo == k - ((k - 1) % n)
                     hi == IF lo + n - 1 <= Len(w) THEN lo + n - 1 ELSE Len(w)
                 IN  /\ ev[k].highlighted = k
                     /\ ev[k].text = [i \in 1..(hi - lo + 1) |-> lo + i - 1]
                     /\ Len(ev[k].text) <= n
                     /\ C33_Stamps(ev[k].startTs, w[k].start)
                     /\ C33_Stamps(ev[k].endTs,
                                   IF last THEN w[k].end ELSE w[k + 1].start)

\* five words on lines of two: the first word's event ends where the second
\* word starts, which is not where the first word ends, and the fifth word
\* is alone on the third line
C33_Witness ==
    /\ Len(render.subtitles.events) = 5
    /\ render.subtitles.wordsPerLine = 2
    /\ render.subtitles.wordTimings[1].end # render.subtitles.wordTimings[2].start
    /\ render.subtitles.events[1].endTs # FormatTime(render.subtitles.wordTimings[1].end)
    /\ render.subtitles.events[5].text = <<5>>

\* C35: a job that is done keeps its working directory, and so its output
\* file, as long as its record says done with that output: no restart, no
\* cancel request and no completion or cancellation of another job removes
\* the directory (only the sweep of old jobs does, which deletes the record).
C35_FinishedKeepsWorkdir ==
    [][\A j \in Ids :
          /\ jobs[j].status = "done" /\ jobs[j].result
          /\ j \in workdir
          /\ jobs'[j].status = "done" /\ jobs'[j].result
          => j \in workdir']_vars

\* C36: the jobs persisted as queued when the process restarts are queued or
\* already dequeued after init(), none is dropped or failed by the recovery,
\* and the job init() dequeues is the one created first.
C36_QueuedResumeInOrder ==
    [][epoch' # epoch =>
          \A j \in Ids :
             disk[j].status = "queued"
             => /\ jobs'[j].status \in {"queued", "preparing"}
                /\ jobs'[j].status = "preparing"
                   => \A k \in Ids :
                         disk[k].status = "queued" /\ k < j
                         => jobs'[k].status # "queued"]_vars

\* C38: whenever no status write is in flight, the activeJobs counter is the
\* number of jobs whose status is preparing or processing.
C38_CounterMatchesStatuses ==
    writes = {}
    => activeJobs = Cardinality({j \in Ids : jobs[j].status \in Active})

\* C31: downloadFile makes at most 3 attempts for a URL, each one fetch
\* followed, when it fails, by at most one curl fallback; it waits
\* 1000 ms * k after the failed attempt k, returns at the first attempt
\* that succeeds without making another, and throws after the third failed
\* attempt.
C31_ThreeAttempts ==
    LET c == download.calls
        fetches == {i \in 1..Len(c) : c[i].tool = "fetch"}
        curls == {i \in 1..Len(c) : c[i].tool = "curl"}
    IN  /\ Cardinality(fetches) <= 3
        /\ \A i \in 1..Len(c) : i % 2 = 1 <=> i \in fetches
        /\ download.waits = [k \in 1..Len(download.waits) |-> 1000 * k]
        /\ Len(download.waits) <= 3
        /\ download.st = "returned"
           => /\ Len(download.waits) = Cardinality(fetches) - 1
              /\ Cardinality(curls) \in {Len(download.waits),
                                          Len(download.waits) + 1}
              /\ c[Len(c)].met = "ok"
        /\ download.st = "thrown" /\ download.error # "scheme"
           => /\ Cardinality(fetches) = 3
              /\ Cardinality(curls) = 3
              /\ Len(download.waits) = 3
        /\ download.st \in {"fetching", "curl"}
           => Len(download.waits) = download.attempt - 1
        /\ download.st = "thrown" /\ download.error = "scheme" => c = <<>>

\* the third attempt succeeded through curl, after waits of 1 s and 2 s
C31_Witness ==
    /\ download.st = "returned"
    /\ Len(download.calls) = 6
    /\ download.waits = <<1000, 2000>>

\* C32: downloadFile never returns with a tiny error payload stored: a body
\* under 200 bytes that contains XML or HTML error markup counts as a failed
\* attempt on the fetch path and on the curl path alike.
C32_NoErrorPayloadAccepted ==
    download.st = "returned"
    => ~(/\ download.stored.tiny
         /\ download.stored.marks \cap {"<?xml", "<Error>", "<html"} # {})

\* C37: for each job id the bot sends the terminal result message at most
\* once, also when the webhook callback and the status poll both see the
\* terminal status and call deliverJobResult concurrently.
C37_DeliveredAtMostOnce == \A j \in Ids : delivery.sent[j] <= 1

\* C39: for every configured limit N >= 1, once the processQueue call of
\* createJob, of a completion, of a cancellation or of init has finished
\* (no status write is pending), no job is queued while fewer than N jobs
\* are active.
C39_WorkConserving ==
    writes = {}
    => ~(\E j \in Ids : jobs[j].status = "queued" /\ activeJobs < queueLimit)

====
